---- MODULE Spec2Model ----
(***************************************************************************)
(* Mason County jail roster monitor: the extraction / change-detection /   *)
(* pending-release core of the run handlers.                               *)
(*                                                                         *)
(* Revisions of the run handler that are modelled (variable rev):          *)
(*   "v1"   src/server.js 212-511      /api/run with pending tracking      *)
(*   "v2"   src/server.js 1471-1691    /api/run, later revision            *)
(*   "cr"   src/unnamed/part_001 145-237   /api/check-roster               *)
(*   "tool" src/.mastra/output/rosterTools.mjs, one deployment on one     *)
(*          .data directory: compareRosterTool followed by                 *)
(*          saveRosterHistoryTool (258-388), the workflow with             *)
(*          compareRosterStep and saveHistoryStep (1095-1338) and the      *)
(*          route GET /api/run (1711-1845)                                 *)
(*   "api"  src/api/check-roster.js 8-69   the serverless handler          *)
(*                                                                         *)
(* Texts are sequences of blocks (the pieces text.split(/(?=Booking #:)/)  *)
(* yields); a block carries what the regular expressions of                *)
(* extractBookings capture from it.  Strings that the code edits           *)
(* character by character (names) are sequences of one-character strings.  *)
(* A value that may be absent (a file, a regex capture) is a sequence of   *)
(* length 0 (absent) or more.  The State Store is the four files           *)
(* prev_hash.txt, prev_roster.txt, pending_releases.json, change_log.txt;  *)
(* the scratch files of a run (current.pdf, current_text.txt,              *)
(* debug_sample.txt) are read by no later run and are left out.            *)
(***************************************************************************)
EXTENDS Integers, Sequences, FiniteSets, TLC

VARIABLES rev, cfg, prev_hash, prev_roster, pending_releases,
          change_log, pc, text, result, runs, faults, clock, waited, last,
          pure, fetch_log

vars == <<rev, cfg, prev_hash, prev_roster, pending_releases,
          change_log, pc, text, result, runs, faults, clock, waited, last,
          pure, fetch_log>>

(* ------------------------------ bounds --------------------------------- *)
MaxRuns == 4
WideRuns == 2
FaultRuns == 3
OverlapRuns == 3
MaxNameLen == 4
MaxBlockLines == 3
StepRuns == 3
MixedRuns == 3
MaxFaults == 1
MaxTicks == 1
MaxUndated == 2
MaxTimed == 3
MaxWait == 3
BigN == 31
NProcs == 2

(* -------------------------- program constants -------------------------- *)
MAX_LINES == 30

Procs == 1..NProcs

(* ------------------------------- files --------------------------------- *)
NoFile == <<>>
File(c) == <<c>>
existsSync(f) == f # NoFile
readFileSync(f) == f[1]

(* crypto.createHash("md5").update(text).digest("hex"): a digest of the    *)
(* whole text; distinct texts of the model have distinct digests.          *)
md5(t) == [md5 |-> t]

(* A comparison that reports a change whatever the stored digest is. *)
hashDiffersAlways(currentHash, previousHash) == TRUE

(* hasChanged = currentHash !== previousHash.trim() *)
hashDiffers(currentHash, previousHash) == currentHash # previousHash

(* ------------------------- character strings --------------------------- *)
(* The class \s of the regular expressions, which is also what trim()     *)
(* strips: blank, line feed, tab, carriage return, form feed, vertical    *)
(* tab, U+00A0, U+1680, U+FEFF, U+2000..U+200A, U+2028, U+2029, U+202F,    *)
(* U+205F and U+3000; the characters of the last row are written by the   *)
(* name of their code point.                                              *)
WS ==
  {" ", "\n", "\t", "\r", "\f", "", " ", " ", "﻿"}
  \cup {"U+2000", "U+2001", "U+2002", "U+2003", "U+2004", "U+2005",
        "U+2006", "U+2007", "U+2008", "U+2009", "U+200A", "U+2028",
        "U+2029", "U+202F", "U+205F", "U+3000"}

RECURSIVE trimStart(_)
trimStart(s) ==
  IF s # <<>> /\ Head(s) \in WS THEN trimStart(Tail(s)) ELSE s

RECURSIVE trimEnd(_)
trimEnd(s) ==
  IF s # <<>> /\ s[Len(s)] \in WS THEN trimEnd(SubSeq(s, 1, Len(s) - 1)) ELSE s

trim(s) == trimEnd(trimStart(s))

(* s.replace(/\s+/g, ' ') *)
RECURSIVE collapseWs(_)
collapseWs(s) ==
  IF s = <<>> THEN <<>>
  ELSE IF Head(s) \in WS
       THEN <<" ">> \o collapseWs(trimStart(s))
       ELSE <<Head(s)>> \o collapseWs(Tail(s))

(* s.replace(/\s+/g, '') *)
stripWs(s) == SelectSeq(s, LAMBDA c : c \notin WS)

(* s.replace(/\.\s*$/, ''): the period that only whitespace follows, and   *)
(* that whitespace, are removed.                                           *)
stripTrailingPeriod(s) ==
  LET hits == {i \in 1..Len(s) :
                 s[i] = "." /\ \A j \in (i + 1)..Len(s) : s[j] \in WS}
  IN IF hits = {} THEN s
     ELSE SubSeq(s, 1, (CHOOSE i \in hits : \A k \in hits : i <= k) - 1)

(* name.trim().replace(/\.\s*$/, '').replace(/\s+/g, ' ') *)
cleanName(name) == collapseWs(stripTrailingPeriod(trim(name)))

endsWith(s, c) == s # <<>> /\ s[Len(s)] = c

(* ----------------------- insertion-ordered Map ------------------------- *)
(* A JavaScript Map keyed by booking id: a sequence of records with        *)
(* distinct ids, in insertion order.                                       *)
mapHas(m, id) == \E i \in 1..Len(m) : m[i].id = id

mapKeys(m) == {m[i].id : i \in 1..Len(m)}

(* [...new Set(charges)]: first occurrences, in order *)
RECURSIVE uniq(_)
uniq(s) ==
  IF s = <<>> THEN <<>>
  ELSE LET r == uniq(SubSeq(s, 1, Len(s) - 1))
           x == s[Len(s)]
       IN IF \E i \in 1..Len(r) : r[i] = x THEN r ELSE Append(r, x)

slice(s, n) == SubSeq(s, 1, IF Len(s) < n THEN Len(s) ELSE n)

(* A function on 1..n as the array it stands for (evaluated once). *)
array(f) == f \o <<>>

(* ----------------------------- dates ----------------------------------- *)
(* "MM/DD/YY HH:MM:SS": date and time are kept as the integers YYMMDD and  *)
(* HHMMSS, so that integer order is the order of the parsed Date objects.  *)
(* plain tells that the text has two digits in every field, as the         *)
(* release feed and the padded current time print it; the roster patterns  *)
(* also take an hour, a month or a day of one digit and a year of three    *)
(* or four (server.js 957, 960), which LooseDateTime stands for.  ms is    *)
(* the millisecond of a Date object within its second.                     *)
DateTime(d, t) ==
  [s |-> "datetime", date |-> d, time |-> t, plain |-> TRUE, ms |-> 0]
LooseDateTime(d, t) ==
  [s |-> "datetime", date |-> d, time |-> t, plain |-> FALSE, ms |-> 0]
NotReleased == [s |-> "Not Released", date |-> 0, time |-> 0]
Unknown == [s |-> "Unknown", date |-> 0, time |-> 0]

UnknownName == <<"U", "n", "k", "n", "o", "w", "n">>
NoneListed == <<"None listed">>

(* ------------------------ Record Extractor ----------------------------- *)
(* The charge loop over block.split("\n").  A line of the model is         *)
(*   "header"  the Statute/Offense/Court column header                     *)
(*   "charge"  a line the charge pattern matches, with the captured text   *)
(*   "marker"  Name Number: / Book Date: / Rel Date: lines, skipped        *)
(*   "page"    a line starting with "-- n of m --", "Page n",               *)
(*             "Current Inmate" or "rpjlciol" (page header and footer)     *)
(*   "booking" a line starting with "Booking #:"                           *)
(*   "other"   any other non-empty line (no match)                         *)
(* v1 stops at a "booking" line (server.js 308-310); the tool stops at a   *)
(* "booking" or a "page" line once in the charge section (rosterTools.mjs  *)
(* 122-124); the /api/run revisions and /api/check-roster pass over a      *)
(* "page" line.                                                            *)
(* A charge loop that takes every line of charge shape, header or not. *)
chargeLoopAny(r, lines, inCharges, acc) ==
  LET hits == SelectSeq(lines, LAMBDA l : l.kind = "charge")
  IN acc \o [i \in 1..Len(hits) |-> hits[i].offense]

RECURSIVE chargeLoop(_, _, _, _)
chargeLoop(r, lines, inCharges, acc) ==
  IF lines = <<>> THEN acc
  ELSE LET l == Head(lines) IN
       IF l.kind = "header" THEN chargeLoop(r, Tail(lines), TRUE, acc)
       ELSE IF l.kind = "booking" /\ (r = "v1" \/ (r = "tool" /\ inCharges))
            THEN acc
       ELSE IF l.kind = "page" /\ r = "tool" /\ inCharges
            THEN acc
       ELSE IF inCharges /\ l.kind = "charge"
            THEN chargeLoop(r, Tail(lines), inCharges, Append(acc, l.offense))
       ELSE chargeLoop(r, Tail(lines), inCharges, acc)

(* One block of the split to one booking record. *)
parseBlock(r, block) ==
  LET name0 == IF block.nameCap # <<>>
               THEN collapseWs(trim(block.nameCap)) ELSE UnknownName
      name  == IF r # "cr" /\ endsWith(name0, ",") /\ block.nextLine # <<>>
               THEN name0 \o <<" ">> \o trim(block.nextLine) ELSE name0
      bookDate == IF ~block.bookMatch THEN Unknown
                  ELSE IF block.bookPlain
                  THEN DateTime(block.bookDate, block.bookTime)
                  ELSE LooseDateTime(block.bookDate, block.bookTime)
      releaseDate == IF block.relMatch # "date" THEN NotReleased
                     ELSE IF block.relPlain
                     THEN DateTime(block.relDate, block.relTime)
                     ELSE LooseDateTime(block.relDate, block.relTime)
  IN [id |-> block.idCap[1], name |-> name, bookDate |-> bookDate,
      releaseDate |-> releaseDate,
      charges |-> uniq(chargeLoop(r, block.lines, FALSE, <<>>))]

(* for (const block of blocks) { ...continue...; bookings.set(id, {...}) }  *)
(* A block without the marker or without an id is skipped.  Map.set keeps  *)
(* a key at the position of its first insertion and keeps the value of its *)
(* last one, so the loop is written here by positions: the record at the   *)
(* n-th first occurrence of an id comes from the last block with that id.  *)
extractBookings(r, rosterText) ==
  LET n == Len(rosterText)
      key == array([i \in 1..n |->
                      IF rosterText[i].marker THEN rosterText[i].idCap
                      ELSE <<>>])
      firsts == SelectSeq(array([i \in 1..n |-> i]),
                  LAMBDA i : key[i] # <<>>
                             /\ \A j \in 1..(i - 1) : key[j] # key[i])
      lastOf(i) == CHOOSE j \in i..n :
                     key[j] = key[i]
                     /\ \A k \in (j + 1)..n : key[k] # key[i]
  IN array([m \in 1..Len(firsts) |->
              parseBlock(r, rosterText[lastOf(firsts[m])])])

(* ------------------------------ lines ---------------------------------- *)
chargeText(charges) == IF charges = <<>> THEN NoneListed ELSE charges

(* name | Booked: bookDate | Charges: ... *)
formatBooked(b) ==
  [tag |-> "Booked", name |-> b.name, date |-> b.bookDate, timeServed |-> <<>>,
   bail |-> <<>>, type |-> <<>>, mark |-> <<>>, extra |-> <<>>,
   charges |-> chargeText(b.charges)]

ExactLine(name, info, charges) ==
  [tag |-> "Released", name |-> name, date |-> info.releaseDateTime,
   timeServed |-> <<info.timeServed>>,
   bail |-> IF info.bail > 0 THEN <<info.bail>> ELSE <<>>,
   type |-> <<info.releaseType>>, mark |-> <<>>, extra |-> <<>>,
   charges |-> chargeText(charges)]

PlainReleased(b, date, mark) ==
  [tag |-> "Released", name |-> b.name, date |-> date, timeServed |-> <<>>,
   bail |-> <<>>, type |-> <<>>, mark |-> mark, extra |-> <<>>,
   charges |-> chargeText(b.charges)]

statsHas(stats, name) == name \in DOMAIN stats

PendingMark == <<"(exact time pending)">>

(* A formatter that never looks the name up in the release details. *)
formatReleasedNoStats(b, stats, isPending) ==
  [text |-> PlainReleased(b, b.releaseDate, PendingMark),
   hasPendingDetails |-> TRUE]

(* server.js 351-381 *)
formatReleased(b, stats, isPending) ==
  IF statsHas(stats, b.name)
  THEN [text |-> ExactLine(b.name, stats[b.name], b.charges),
        hasPendingDetails |-> FALSE]
  ELSE IF isPending
  THEN [text |-> PlainReleased(b, b.releaseDate, PendingMark),
        hasPendingDetails |-> TRUE]
  ELSE [text |-> PlainReleased(b, b.releaseDate, <<>>),
        hasPendingDetails |-> FALSE]

(* server.js 1022-1047: without release info the detection time is used    *)
(* and the release is never marked pending.                                *)
formatReleased2(b, stats, isPending, now) ==
  IF statsHas(stats, b.name)
  THEN [text |-> ExactLine(b.name, stats[b.name], b.charges),
        hasPendingDetails |-> FALSE]
  ELSE [text |-> PlainReleased(b, now, <<>>), hasPendingDetails |-> FALSE]

(* part_001 84-86 *)
formatReleasedCr(b) == PlainReleased(b, b.releaseDate, <<>>)

(* rosterTools.mjs 162-165: name | Booked | Release | Charges *)
formatBookingForDisplay(entry) ==
  [tag |-> "Display", name |-> entry.name, date |-> entry.bookDate,
   timeServed |-> <<>>, bail |-> <<>>, type |-> <<>>, mark |-> <<>>,
   extra |-> <<entry.releaseDate>>,
   charges |-> IF entry.charges = <<>> THEN <<"No charges listed">>
               ELSE entry.charges]

(* -------------------- Release Detail Extractor ------------------------- *)
(* fetchReleaseStats, server.js 27-64.  The feed is                         *)
(*   ok     response.ok; FALSE also when fetch or the parse threw          *)
(*   why    "status" (non-success response) or "throw" when not ok         *)
(*   lines  the lines of the body the five-field pattern matches, as       *)
(*          their captures (a non-success response has a body too)         *)
EmptyMap == <<>>

statsSet(m, k, v) == [n \in DOMAIN m \cup {k} |-> IF n = k THEN v ELSE m[n]]

RECURSIVE buildReleaseMap(_, _)
buildReleaseMap(lines, releaseMap) ==
  IF lines = <<>> THEN releaseMap
  ELSE LET l == Head(lines) IN
       buildReleaseMap(Tail(lines),
         statsSet(releaseMap, cleanName(l.name),
                  [releaseDateTime |-> DateTime(l.date, l.time),
                   releaseType |-> l.releaseType,
                   timeServed |-> stripWs(l.timeServed),
                   bail |-> l.bail]))

(* An extractor that parses the body of a non-success response too. *)
fetchReleaseStatsAnyStatus(feed) == buildReleaseMap(feed.lines, EmptyMap)

fetchReleaseStats(feed) ==
  IF ~feed.ok THEN EmptyMap ELSE buildReleaseMap(feed.lines, EmptyMap)

(* --------------------------- State Store ------------------------------- *)
(* The four files as one record, and the file-system calls of one          *)
(* synchronous section as a list applied in program order.  A call that    *)
(* throws ends the section: the calls before it have taken effect.         *)
Store(h, r, p, l) == [hash |-> h, roster |-> r, pending |-> p, log |-> l]

WriteOp(f, v) == [file |-> f, data |-> v]

(* A file system whose append replaces the content of the file. *)
applyOpWrite(st, op) ==
  CASE op.file = "pending_releases.json" -> [st EXCEPT !.pending = File(op.data)]
    [] op.file = "prev_hash.txt"         -> [st EXCEPT !.hash = File(op.data)]
    [] op.file = "prev_roster.txt"       -> [st EXCEPT !.roster = File(op.data)]
    [] op.file = "change_log.txt"        -> [st EXCEPT !.log = op.data]

applyOp(st, op) ==
  CASE op.file = "pending_releases.json" -> [st EXCEPT !.pending = File(op.data)]
    [] op.file = "prev_hash.txt"         -> [st EXCEPT !.hash = File(op.data)]
    [] op.file = "prev_roster.txt"       -> [st EXCEPT !.roster = File(op.data)]
    [] op.file = "change_log.txt"        -> [st EXCEPT !.log = st.log \o op.data]

(* A section whose writes are undone when one of them throws. *)
applyOpsRollback(st, ops, n) ==
  IF n < Len(ops) THEN st
  ELSE LET step[i \in 0..Len(ops)] ==
             IF i = 0 THEN st ELSE applyOp(step[i - 1], ops[i])
       IN step[Len(ops)]

RECURSIVE applyOps(_, _, _)
applyOps(st, ops, n) ==
  IF n = 0 \/ ops = <<>> THEN st
  ELSE applyOps(applyOp(st, Head(ops)), Tail(ops), n - 1)

opNames(ops, n) == [i \in 1..n |-> ops[i].file]

(* ----------------------------- log entries ----------------------------- *)
LogEntry(kind, at, booked, released, updated, items) ==
  [kind |-> kind, at |-> at,
   booked |-> booked, bookedCount |-> Len(booked),
   released |-> released, releasedCount |-> Len(released),
   updated |-> updated, updatedCount |-> Len(updated), items |-> items,
   lines |-> <<>>]

(* server.js 467-486: the UPDATED RELEASE INFORMATION block *)
updateEntry(updatedReleases, timestamp) ==
  LogEntry("Release details update", timestamp, <<>>, <<>>,
           [i \in 1..Len(updatedReleases) |->
              ExactLine(updatedReleases[i].name, updatedReleases[i].details,
                        updatedReleases[i].charges)],
           <<>>)

(* ------------------ change_log.txt as lines of text -------------------- *)
(* What the maintenance routes of the later revision of server.js see:     *)
(* content.split("\n").  A line is the sequence of the parts written into  *)
(* it, the empty line is <<>>, and the last line of a file is what follows *)
(* its last line feed.  The parts are                                      *)
(*   "item"    TYPE | line, server.js 1609 and 1639                        *)
(*   "rule"    the row of 80 "="                                           *)
(*   "head"    Release details update at: timestamp                        *)
(*   "count"   UPDATED RELEASE INFORMATION (n):                            *)
(*   "updated" the check mark and the line of a resolved release           *)
NoLine == [tag |-> "none"]

Part(kind, type, line, at, n) ==
  [kind |-> kind, type |-> type, line |-> line, at |-> at, n |-> n]

itemLine(c) == <<Part("item", c.type, c.line, 0, 0)>>

Rule == <<Part("rule", "", NoLine, 0, 0)>>

(* the text one appendFileSync of the later /api/run or of merge-logs      *)
(* adds, split at its line feeds                                           *)
entryLines(e) ==
  CASE e.kind = "lines" ->
         (IF e.items = <<>> THEN <<<<>>>>
          ELSE [i \in 1..Len(e.items) |-> itemLine(e.items[i])])
         \o <<<<>>, <<>>>>
    [] e.kind = "Release details update" ->
         <<<<>>, Rule, <<Part("head", "", NoLine, e.at, 0)>>, Rule,
           <<Part("count", "", NoLine, 0, e.updatedCount)>>>>
         \o [i \in 1..Len(e.updated) |->
               <<Part("updated", "", e.updated[i], 0, 0)>>]
         \o <<<<>>>>
    [] e.kind = "merged" -> <<<<>>>> \o e.lines

(* fs.appendFileSync: the first line of the added text goes on after the   *)
(* last line of the file                                                   *)
appendLines(file, added) ==
  SubSeq(file, 1, Len(file) - 1) \o <<file[Len(file)] \o added[1]>>
    \o Tail(added)

(* The lines of the log file: of the file a maintenance route wrote and of *)
(* what was appended to it since.                                          *)
RECURSIVE fileLines(_)
fileLines(log) ==
  IF log = <<>> THEN <<<<>>>>
  ELSE LET e == log[Len(log)]
       IN IF e.kind = "rewritten" THEN e.lines
          ELSE appendLines(fileLines(SubSeq(log, 1, Len(log) - 1)),
                           entryLines(e))

(* fs.writeFileSync(logFile, lines.join("\n")) *)
writeLines(log, lines) ==
  IF lines = fileLines(log) THEN log
  ELSE <<[LogEntry("rewritten", 0, <<>>, <<>>, <<>>, <<>>)
            EXCEPT !.lines = lines]>>

(* [...new Set(lines)], server.js 1964: the first of equal lines stays *)
uniqueLines(lines) ==
  LET keep == SelectSeq([i \in 1..Len(lines) |-> i],
                LAMBDA i : \A j \in 1..(i - 1) : lines[j] # lines[i])
  IN array([k \in 1..Len(keep) |-> lines[keep[k]]])

dated(part) ==
  /\ part.line # NoLine
  /\ part.line.date.s = "datetime"
  /\ part.line.date.plain

firstPart(line, Test(_)) ==
  LET hits == SelectSeq(line, Test)
  IN IF hits = <<>> THEN <<>> ELSE <<hits[1]>>

(* /api/admin/fix-releases, server.js 1060-1071: the date a line sets as   *)
(* the date of the lines after it.  The first pattern takes the first      *)
(* Booked: or Released: date with a time, the second the first Released:   *)
(* date of a line that does not hold "00:00:00".                           *)
lineDate(line) ==
  LET any == firstPart(line, dated)
      rel == firstPart(line, LAMBDA q : dated(q) /\ q.line.tag = "Released")
      midnight == \E i \in 1..Len(line) :
                    dated(line[i]) /\ line[i].line.date.time = 0
  IN IF rel # <<>> /\ ~midnight THEN <<rel[1].line.date.date>>
     ELSE IF any # <<>> THEN <<any[1].line.date.date>>
     ELSE <<>>

notReleased(part) ==
  /\ part.line # NoLine
  /\ part.line.tag = "Released"
  /\ part.line.date = NotReleased

(* line.replace("Released: Not Released", "Released: " + date + " 00:00:00") *)
fixLine(line, date) ==
  LET at == CHOOSE i \in 1..Len(line) :
              notReleased(line[i]) /\ \A j \in 1..(i - 1) : ~notReleased(line[j])
  IN [line EXCEPT ![at].line.date = DateTime(date, 0)]

(* server.js 1059-1086 *)
fixReleases(lines) ==
  LET set == array([i \in 1..Len(lines) |-> lineDate(lines[i])])
      currentDate(i) ==
        LET js == {j \in 1..i : set[j] # <<>>}
        IN IF js = {} THEN <<>>
           ELSE set[CHOOSE j \in js : \A k \in js : k <= j]
      broken(line) ==
        /\ \E i \in 1..Len(line) :
             line[i].kind = "item" /\ line[i].type = "RELEASED"
        /\ \E i \in 1..Len(line) : notReleased(line[i])
  IN array([i \in 1..Len(lines) |->
       IF broken(lines[i]) /\ currentDate(i) # <<>>
       THEN fixLine(lines[i], currentDate(i)[1])
       ELSE lines[i]])

(* -------------------------- Snapshot Differ ---------------------------- *)
(* array.map(F), server.js 392-403 *)
mapSeq(s, F(_)) == array([i \in 1..Len(s) |-> F(s[i])])

(* A differ that matches the two rosters by inmate name. *)
notInByName(a, b) ==
  SelectSeq(a, LAMBDA x : ~\E i \in 1..Len(b) : b[i].name = x.name)

(* for (const [id, booking] of a) if (!b.has(id)) ... *)
notIn(a, b) == SelectSeq(a, LAMBDA x : ~mapHas(b, x.id))

(* -------------------- Pending Release Reconciler ----------------------- *)
(* A merge that takes the entries of this run twice. *)
mergePendingTwice(pendingReleases, newPendingReleases) ==
  pendingReleases \o newPendingReleases \o newPendingReleases

(* A merge that puts the entries of this run first. *)
mergePendingFront(pendingReleases, newPendingReleases) ==
  newPendingReleases \o pendingReleases

(* pendingReleases = [...pendingReleases, ...newPendingReleases] *)
mergePending(pendingReleases, newPendingReleases) ==
  pendingReleases \o newPendingReleases

PendingEntry(booking, timestamp) ==
  [name |-> booking.name, bookingData |-> booking, detectedAt |-> timestamp]

(* A reconciler that reports no resolved entry. *)
updatedOfNone(pendingReleases, releaseStats) == <<>>

(* server.js 426-443 *)
updatedOf(pendingReleases, releaseStats) ==
  mapSeq(SelectSeq(pendingReleases, LAMBDA p : statsHas(releaseStats, p.name)),
         LAMBDA p : [name |-> p.name, details |-> releaseStats[p.name],
                     charges |-> p.bookingData.charges])

(* A reconciler that drops an entry when a key of the release details    *)
(* merely starts with its name.                                            *)
stillPendingFuzzy(pendingReleases, releaseStats) ==
  SelectSeq(pendingReleases,
    LAMBDA p : ~\E k \in DOMAIN releaseStats :
                 Len(k) >= Len(p.name) /\ SubSeq(k, 1, Len(p.name)) = p.name)

(* A reconciler that leaves the queue as it found it. *)
stillPendingAll(pendingReleases, releaseStats) == pendingReleases

stillPendingOf(pendingReleases, releaseStats) ==
  SelectSeq(pendingReleases, LAMBDA p : ~statsHas(releaseStats, p.name))

Response(ok, err, first, changed, added, removed, updated) ==
  [ok |-> ok, error |-> err, isFirstRun |-> first, hasChanged |-> changed,
   addedLines |-> added, removedLines |-> removed, updatedReleases |-> updated]

(* ------------------ /api/run, server.js 242-502 ------------------------ *)
(* Everything after the last await: load, diff, reconcile, write.          *)
runV1(st, txt, releaseStats, timestamp) ==
  LET currentHash == md5(txt)
      pending0 == IF existsSync(st.pending) THEN readFileSync(st.pending)
                  ELSE <<>>
      hasPrev == existsSync(st.hash) /\ existsSync(st.roster)
      hasChanged == hasPrev /\ hashDiffers(currentHash, readFileSync(st.hash))
      isFirstRun == ~hasPrev
      currentBookings == extractBookings("v1", txt)
      previousBookings == IF hasPrev
                          THEN extractBookings("v1", readFileSync(st.roster))
                          ELSE <<>>
      gone == IF hasChanged THEN notIn(previousBookings, currentBookings)
              ELSE <<>>
      allAdded == IF hasChanged
                  THEN mapSeq(notIn(currentBookings, previousBookings),
                              formatBooked)
                  ELSE <<>>
      allRemoved == mapSeq(gone,
                      LAMBDA b : formatReleased(b, releaseStats, TRUE).text)
      newPendingReleases ==
        mapSeq(SelectSeq(gone,
                 LAMBDA b : formatReleased(b, releaseStats, TRUE).hasPendingDetails),
               LAMBDA b : PendingEntry(b, timestamp))
      pendingReleases == mergePending(pending0, newPendingReleases)
      addedLines == slice(allAdded, MAX_LINES)
      removedLines == slice(allRemoved, MAX_LINES)
      updatedReleases == updatedOf(pendingReleases, releaseStats)
      stillPending == stillPendingOf(pendingReleases, releaseStats)
      logEntry ==
        IF isFirstRun
        THEN LogEntry("Initial capture", timestamp, <<>>, <<>>, <<>>, <<>>)
        ELSE IF hasChanged
        THEN LogEntry("Change detected", timestamp, addedLines, removedLines,
                      <<>>, <<>>)
        ELSE LogEntry("No change", timestamp, <<>>, <<>>, <<>>, <<>>)
  IN [ops |-> <<WriteOp("pending_releases.json", stillPending),
                WriteOp("prev_hash.txt", currentHash),
                WriteOp("prev_roster.txt", txt),
                WriteOp("change_log.txt", <<logEntry>>)>>
              \o (IF Len(updatedReleases) > 0
                  THEN <<WriteOp("change_log.txt",
                                 <<updateEntry(updatedReleases, timestamp)>>)>>
                  ELSE <<>>),
      differ |-> hasChanged,
      response |-> Response(TRUE, "", isFirstRun, hasChanged, addedLines,
                            removedLines, updatedReleases)]

(* --------------- /api/run, later revision, server.js 1501-1682 --------- *)
(* new Date() of a run: later than every date of the rosters.  The text    *)
(* formatReleased makes of it has whole seconds (ms 0); the Date that      *)
(* extractDateFromLine returns for a line without a date keeps its         *)
(* millisecond.                                                            *)
NowDay == 991231
nowStamp(timestamp) == DateTime(NowDay, timestamp)

(* formatReleased reads new Date() in every call that finds no release     *)
(* details (server.js 1040), after the handler has made its time stamp     *)
(* (1502).  reads lists, for those calls in their order, the seconds       *)
(* passed since the time stamp.                                            *)
(* the seconds passed at call j of those calls; the calls after the last   *)
(* listed one read what it read                                            *)
readAt(reads, j) ==
  IF reads = <<>> \/ j = 0 THEN 0
  ELSE reads[IF j < Len(reads) THEN j ELSE Len(reads)]

(* extractDateFromLine, server.js 1438-1468: the Booked: or Released: date *)
(* of the line when it reads \d{2}/\d{2}/\d{2}\s+\d{2}:\d{2}:\d{2}, else   *)
(* new Date(), the time of the call.                                       *)
extractDateFromLine(line, now) ==
  IF line.date.s = "datetime" /\ line.date.plain THEN line.date ELSE now

dateGT(a, b) ==
  \/ a.date > b.date
  \/ (a.date = b.date /\ a.time > b.time)
  \/ (a.date = b.date /\ a.time = b.time /\ a.ms > b.ms)

(* changes.sort((a, b) => b.date - a.date): stable, newest first.  Element *)
(* i lands behind the elements that are newer and the equally old ones     *)
(* that precede it.                                                        *)
sortNewestFirst(changes) ==
  LET n == Len(changes)
      date == array([i \in 1..n |-> changes[i].date])
      rank == array([i \in 1..n |->
                1 + Cardinality({j \in 1..n :
                      \/ dateGT(date[j], date[i])
                      \/ (date[j] = date[i] /\ j < i)})])
      at == array([k \in 1..n |-> CHOOSE i \in 1..n : rank[i] = k])
  IN array([k \in 1..n |-> changes[at[k]]])

Change(type, line, now) ==
  [type |-> type, line |-> line, date |-> extractDateFromLine(line, now)]

(* The milliseconds that pass while the loops at server.js 1616-1633 push  *)
(* the lines of a changed run: each line without a date the pattern reads  *)
(* gets the time of its own push.  ticks lists, for those lines in the     *)
(* order of their pushes, the milliseconds passed since the first.         *)
(* TickSeqs(k, m) are the readings k calls in a row can get from a clock   *)
(* that moves on by no more than m.                                        *)
RECURSIVE TickSeqs(_, _)
TickSeqs(k, m) ==
  IF k = 0 THEN {<<>>}
  ELSE UNION {{Append(t, v) : v \in (IF t = <<>> THEN 0 ELSE t[Len(t)])..m} :
                t \in TickSeqs(k - 1, m)}

undated(line) == ~(line.date.s = "datetime" /\ line.date.plain)

(* changes.push({type, line, date: extractDateFromLine(line)}) for every   *)
(* line of lines, pushed after the changes of before                        *)
pushChanges(type, lines, now, ticks, before) ==
  IF ticks = <<>>
  THEN array([i \in 1..Len(lines) |-> Change(type, lines[i], now)])
  ELSE array([i \in 1..Len(lines) |->
         LET j == Len(SelectSeq(before, LAMBDA c : undated(c.line)))
                  + Len(SelectSeq(SubSeq(lines, 1, i), undated))
             ms == IF j = 0 THEN 0
                   ELSE ticks[IF j < Len(ticks) THEN j ELSE Len(ticks)]
         IN Change(type, lines[i], [now EXCEPT !.ms = ms])])

(* A first-run log that lists nobody. *)
logItemsNone(changes) == <<>>

logItems(changes) ==
  mapSeq(sortNewestFirst(changes), LAMBDA c : [type |-> c.type, line |-> c.line])

(* The later /api/run from the load of the stored state to the lists of   *)
(* added and removed lines and the queue, server.js 1560-1615, when the    *)
(* clock stands still from the time stamp on.  timed counts the calls of   *)
(* formatReleased that read the clock, call tells for each removed line    *)
(* which of them made it (0: none, the release details had the name).      *)
compareV2(st, txt, releaseStats, timestamp) ==
  LET currentHash == md5(txt)
      pending0 == IF existsSync(st.pending) THEN readFileSync(st.pending)
                  ELSE <<>>
      hasPrev == existsSync(st.hash) /\ existsSync(st.roster)
      hasChanged == hasPrev /\ hashDiffers(currentHash, readFileSync(st.hash))
      isFirstRun == ~hasPrev
      currentBookings == extractBookings("v2", txt)
      previousBookings == IF hasPrev
                          THEN extractBookings("v2", readFileSync(st.roster))
                          ELSE <<>>
      gone == IF hasChanged THEN notIn(previousBookings, currentBookings)
              ELSE <<>>
      allAdded == IF hasChanged
                  THEN mapSeq(notIn(currentBookings, previousBookings),
                              formatBooked)
                  ELSE <<>>
      timed == array([i \in 1..Len(gone) |->
                 Cardinality({j \in 1..i :
                                ~statsHas(releaseStats, gone[j].name)})])
      released == array([i \in 1..Len(gone) |->
                    formatReleased2(gone[i], releaseStats, TRUE,
                                    nowStamp(timestamp))])
      allRemoved == mapSeq(released, LAMBDA x : x.text)
      newPendingReleases ==
        mapSeq(SelectSeq([i \in 1..Len(gone) |-> i],
                         LAMBDA i : released[i].hasPendingDetails),
               LAMBDA i : PendingEntry(gone[i], timestamp))
      pendingReleases == mergePending(pending0, newPendingReleases)
  IN [txt |-> txt, timestamp |-> timestamp, currentHash |-> currentHash,
      isFirstRun |-> isFirstRun, hasChanged |-> hasChanged,
      timed |-> IF gone = <<>> THEN 0 ELSE timed[Len(gone)],
      call |-> slice(array([i \in 1..Len(gone) |->
                              IF statsHas(releaseStats, gone[i].name) THEN 0
                              ELSE timed[i]]), MAX_LINES),
      spent |-> 0,
      firstLines |-> IF isFirstRun THEN mapSeq(currentBookings, formatBooked)
                     ELSE <<>>,
      addedLines |-> slice(allAdded, MAX_LINES),
      removedLines |-> slice(allRemoved, MAX_LINES),
      updatedReleases |-> updatedOf(pendingReleases, releaseStats),
      stillPending |-> stillPendingOf(pendingReleases, releaseStats)]

(* The removed lines with the clock readings reads: the line of call j     *)
(* carries the time stamp and the seconds passed at that call.             *)
readClock(d, reads) ==
  [d EXCEPT !.removedLines =
              array([i \in 1..Len(d.removedLines) |->
                 IF d.call[i] = 0 THEN d.removedLines[i]
                 ELSE [d.removedLines[i] EXCEPT !.date =
                         nowStamp(d.timestamp + readAt(reads, d.call[i]))]]),
            !.spent = readAt(reads, d.timed)]

(* What the handler holds when it starts to push the changes. *)
diffV2(st, txt, releaseStats, timestamp, reads) ==
  readClock(compareV2(st, txt, releaseStats, timestamp), reads)

(* The rest of the handler, server.js 1616-1692: the changes are pushed    *)
(* with the clock readings ticks, sorted and appended to the log, and the  *)
(* state files are written.                                                *)
writeV2(d, ticks) ==
  LET now == nowStamp(d.timestamp + d.spent)
      logEntry ==
        IF d.isFirstRun
        THEN <<LogEntry("lines", d.timestamp, <<>>, <<>>, <<>>,
                 logItems(mapSeq(d.firstLines,
                                 LAMBDA l : Change("BOOKED", l, now))))>>
        ELSE IF d.hasChanged
        THEN <<LogEntry("lines", d.timestamp, <<>>, <<>>, <<>>,
                 logItems(LET booked == pushChanges("BOOKED", d.addedLines,
                                                    now, ticks, <<>>)
                          IN booked \o pushChanges("RELEASED", d.removedLines,
                                                   now, ticks, booked)))>>
        ELSE <<>>
  IN [ops |-> <<WriteOp("pending_releases.json", d.stillPending),
                WriteOp("prev_hash.txt", d.currentHash),
                WriteOp("prev_roster.txt", d.txt),
                WriteOp("change_log.txt", logEntry)>>
              \o (IF Len(d.updatedReleases) > 0
                  THEN <<WriteOp("change_log.txt",
                                 <<updateEntry(d.updatedReleases, d.timestamp)>>)>>
                  ELSE <<>>),
      differ |-> d.hasChanged,
      response |-> Response(TRUE, "", d.isFirstRun, d.hasChanged, d.addedLines,
                            d.removedLines, d.updatedReleases)]

(* the calls of formatReleased that read the clock; no more than MaxTimed  *)
(* of them get a reading of their own here                                 *)
timedCount(d) == IF d.timed < MaxTimed THEN d.timed ELSE MaxTimed

(* the lines of a changed run that get the time of their push; a response  *)
(* has no more than MaxUndated of them here                                *)
undatedCount(d) ==
  LET n == Len(SelectSeq(d.addedLines \o d.removedLines, undated))
  IN IF ~d.hasChanged THEN 0 ELSE IF n < MaxUndated THEN n ELSE MaxUndated

(* --------------- /api/check-roster, part_001 160-228 ------------------- *)
runCr(st, txt, timestamp) ==
  LET currentHash == md5(txt)
      hasPrev == existsSync(st.hash) /\ existsSync(st.roster)
      hasChanged == hasPrev /\ hashDiffers(currentHash, readFileSync(st.hash))
      isFirstRun == ~hasPrev
      currentBookings == extractBookings("cr", txt)
      previousBookings == IF hasPrev
                          THEN extractBookings("cr", readFileSync(st.roster))
                          ELSE <<>>
      addedLines == IF hasChanged
                    THEN slice(mapSeq(notIn(currentBookings, previousBookings),
                                      formatBooked), MAX_LINES)
                    ELSE <<>>
      removedLines == IF hasChanged
                      THEN slice(mapSeq(notIn(previousBookings, currentBookings),
                                        formatReleasedCr), MAX_LINES)
                      ELSE <<>>
      logEntry ==
        IF isFirstRun
        THEN LogEntry("Initial capture", timestamp, <<>>, <<>>, <<>>, <<>>)
        ELSE IF hasChanged
        THEN LogEntry("Change detected", timestamp, addedLines, removedLines,
                      <<>>, <<>>)
        ELSE LogEntry("No change", timestamp, <<>>, <<>>, <<>>, <<>>)
  IN [ops |-> <<WriteOp("prev_hash.txt", currentHash),
                WriteOp("prev_roster.txt", txt),
                WriteOp("change_log.txt", <<logEntry>>)>>,
      differ |-> hasChanged,
      response |-> Response(TRUE, "", isFirstRun, hasChanged, addedLines,
                            removedLines, <<>>)]

(* ------------- the serverless handler, api/check-roster.js 8-69 -------- *)
(* extractBookingIds, called at api/check-roster.js 56-57; the file ends   *)
(* before its text, which part_001 25-28 holds:                            *)
(* [...text.matchAll(/Booking #:\s*(\S+)/g)].map(m => m[1]).  The pattern  *)
(* runs over the whole text and \s* passes line ends, so a marker with     *)
(* white space only after it captures the first token of the block that    *)
(* follows, the word "Booking" of its marker, and the search goes on       *)
(* behind that word: the marker of the following block is found no more.   *)
(* A block is hidden in this way when the markers without id right before  *)
(* it are odd in number; a marker without id at the end of the text        *)
(* captures nothing.                                                       *)
extractBookingIds(rosterText) ==
  LET n == Len(rosterText)
      bare(i) == rosterText[i].marker /\ rosterText[i].idCap = <<>>
      run(i) == Cardinality({j \in 1..(i - 1) : \A m \in j..(i - 1) : bare(m)})
      hidden(i) == run(i) % 2 = 1
      found == SelectSeq(array([i \in 1..n |-> i]),
                 LAMBDA i : /\ rosterText[i].marker /\ ~hidden(i)
                            /\ (bare(i) => i < n))
  IN mapSeq(found, LAMBDA i : IF bare(i) THEN "Booking"
                              ELSE rosterText[i].idCap[1])

(* ids.filter(id => !others.includes(id)) *)
idsNotIn(a, b) ==
  SelectSeq(a, LAMBDA id : \A j \in 1..Len(b) : b[j] # id)

(* The handler keeps the fingerprint and the text in /tmp and no log, and  *)
(* writes them before it counts the changes.  addedLines and removedLines  *)
(* hold its arrays bookings and releases; the response carries their       *)
(* lengths.                                                                *)
runApi(st, txt, timestamp) ==
  LET currentHash == md5(txt)
      hasPrev == existsSync(st.hash) /\ existsSync(st.roster)
      hasChanged == hasPrev /\ hashDiffers(currentHash, readFileSync(st.hash))
      isFirstRun == ~hasPrev
      currentIds == extractBookingIds(txt)
      previousIds == IF hasPrev THEN extractBookingIds(readFileSync(st.roster))
                     ELSE <<>>
      bookings == IF hasChanged /\ ~isFirstRun
                  THEN idsNotIn(currentIds, previousIds) ELSE <<>>
      releases == IF hasChanged /\ ~isFirstRun
                  THEN idsNotIn(previousIds, currentIds) ELSE <<>>
  IN [ops |-> <<WriteOp("prev_hash.txt", currentHash),
                WriteOp("prev_roster.txt", txt)>>,
      differ |-> hasChanged,
      response |-> [bookings |-> Len(bookings), releases |-> Len(releases)]
                   @@ Response(TRUE, "", isFirstRun, hasChanged, bookings,
                               releases, <<>>)]

(* ------------ GET /api/run of the bundle, rosterTools.mjs 1711-1845 ---- *)
(* The route the bundle serves beside the tools, on the same .data files:  *)
(* the handler of /api/check-roster with the name continued on the next    *)
(* line.                                                                   *)
runBundle(st, txt, timestamp) ==
  LET currentHash == md5(txt)
      hasPrev == existsSync(st.hash) /\ existsSync(st.roster)
      hasChanged == hasPrev /\ hashDiffers(currentHash, readFileSync(st.hash))
      isFirstRun == ~hasPrev
      currentBookings == extractBookings("run", txt)
      previousBookings == IF hasPrev
                          THEN extractBookings("run", readFileSync(st.roster))
                          ELSE <<>>
      addedLines == IF hasChanged
                    THEN slice(mapSeq(notIn(currentBookings, previousBookings),
                                      formatBooked), MAX_LINES)
                    ELSE <<>>
      removedLines == IF hasChanged
                      THEN slice(mapSeq(notIn(previousBookings, currentBookings),
                                        formatReleasedCr), MAX_LINES)
                      ELSE <<>>
      logEntry ==
        IF isFirstRun
        THEN LogEntry("Initial capture", timestamp, <<>>, <<>>, <<>>, <<>>)
        ELSE IF hasChanged
        THEN LogEntry("Change detected", timestamp, addedLines, removedLines,
                      <<>>, <<>>)
        ELSE LogEntry("No change", timestamp, <<>>, <<>>, <<>>, <<>>)
  IN [ops |-> <<WriteOp("prev_hash.txt", currentHash),
                WriteOp("prev_roster.txt", txt),
                WriteOp("change_log.txt", <<logEntry>>)>>,
      differ |-> hasChanged,
      response |-> Response(TRUE, "", isFirstRun, hasChanged, addedLines,
                            removedLines, <<>>)]

(* ------------- compareRosterTool, rosterTools.mjs 275-336 -------------- *)
(* compareRosters, rosterTools.mjs 145-161 *)
compareRosters(previousText, currentText) ==
  LET previousBookings == extractBookings("tool", previousText)
      currentBookings == extractBookings("tool", currentText)
  IN [added |-> notIn(currentBookings, previousBookings),
      removed |-> notIn(previousBookings, currentBookings)]

(* !previousHash || !previousText: a missing file or an empty string *)
falsy(f) == ~existsSync(f) \/ readFileSync(f) = <<>>

(* What the compare tool returns: the response fields, the hash and the   *)
(* time stamp it made (rosterTools.mjs 279-280) and the hash it read, if   *)
(* any.                                                                    *)
ToolOutput(currentHash, previousHash, timestamp, first, changed, added, removed) ==
  [currentHash |-> currentHash, previousHash |-> previousHash,
   timestamp |-> timestamp, ok |-> TRUE,
   error |-> "", isFirstRun |-> first, hasChanged |-> changed,
   addedLines |-> added, removedLines |-> removed, updatedReleases |-> <<>>]

compareRosterTool(st, currentText, timestamp) ==
  LET currentHash == md5(currentText)
      first == ~existsSync(st.hash) \/ falsy(st.roster)
      changed == ~first /\ hashDiffers(currentHash, readFileSync(st.hash))
      diff == IF changed THEN compareRosters(readFileSync(st.roster), currentText)
              ELSE [added |-> <<>>, removed |-> <<>>]
      addedBookings == mapSeq(diff.added, formatBookingForDisplay)
      removedBookings == mapSeq(diff.removed, formatBookingForDisplay)
  IN [differ |-> changed,
      response |-> ToolOutput(currentHash,
                     IF first THEN NoFile ELSE st.hash, timestamp, first,
                     Len(addedBookings) > 0 \/ Len(removedBookings) > 0,
                     addedBookings, removedBookings)]

(* ----------- saveRosterHistoryTool, rosterTools.mjs 353-387 ------------ *)
(* A save that appends its entry whether or not anything changed. *)
saveRosterHistoryToolAlways(context) ==
  <<WriteOp("prev_hash.txt", context.currentHash),
    WriteOp("prev_roster.txt", context.currentText),
    WriteOp("change_log.txt",
      <<LogEntry("Change detected", context.timestamp, context.addedLines,
                 context.removedLines, <<>>, <<>>)>>)>>

(* The input of the save tool (inputSchema, rosterTools.mjs 341-348). *)
SaveContext(currentText, currentHash, timestamp, hasChanged, addedLines, removedLines) ==
  [currentText |-> currentText, currentHash |-> currentHash,
   timestamp |-> timestamp, hasChanged |-> hasChanged,
   addedLines |-> addedLines, removedLines |-> removedLines]

(* The tool writes the hash, the text and the time stamp it is given. *)
saveRosterHistoryTool(context) ==
  <<WriteOp("prev_hash.txt", context.currentHash),
    WriteOp("prev_roster.txt", context.currentText)>>
  \o (IF context.hasChanged
      THEN <<WriteOp("change_log.txt",
               <<LogEntry("Change detected", context.timestamp,
                          context.addedLines, context.removedLines,
                          <<>>, <<>>)>>)>>
      ELSE <<>>)

(* -------- the workflow steps, rosterTools.mjs 1095-1185, 1261-1338 ----- *)
(* currentText.split("\n").filter(line => line.trim()): the lines of each  *)
(* block in order; the line that starts a block carries what the patterns  *)
(* capture from it, the rest of a name that wraps is the line after it,    *)
(* every other line is its kind and its offense text.                      *)
blockLines(block) ==
  LET wrapped == IF trim(block.nextLine) = <<>> THEN <<>>
                 ELSE <<[kind |-> "name", offense |-> "", idCap |-> <<>>,
                         nameCap |-> <<>>, nextLine |-> block.nextLine,
                         book |-> <<>>, rel |-> <<>>]>>
      split[i \in 0..Len(block.lines)] ==
        IF i = 0 THEN <<>>
        ELSE IF block.lines[i].kind = "booking"
        THEN split[i - 1]
             \o <<[kind |-> "booking", offense |-> "", idCap |-> block.idCap,
                   nameCap |-> block.nameCap, nextLine |-> <<>>,
                   book |-> <<block.bookMatch, block.bookDate, block.bookTime,
                              block.bookPlain>>,
                   rel |-> <<block.relMatch, block.relDate, block.relTime,
                             block.relPlain>>]>>
             \o wrapped
        ELSE Append(split[i - 1],
                    [kind |-> block.lines[i].kind,
                     offense |-> block.lines[i].offense,
                     idCap |-> <<>>, nameCap |-> <<>>, nextLine |-> <<>>,
                     book |-> <<>>, rel |-> <<>>])
  IN split[Len(block.lines)]

RECURSIVE textLines(_)
textLines(rosterText) ==
  IF rosterText = <<>> THEN <<>>
  ELSE blockLines(Head(rosterText)) \o textLines(Tail(rosterText))

(* currentLines.filter(line => !previousSet.has(line)) *)
linesNotIn(a, b) ==
  SelectSeq(a, LAMBDA x : ~\E i \in 1..Len(b) : b[i] = x)

StepOutput(currentHash, timestamp, first, changed, added, removed, addedCount, removedCount) ==
  [currentHash |-> currentHash, timestamp |-> timestamp, ok |-> TRUE, error |-> "", isFirstRun |-> first, hasChanged |-> changed,
   addedLines |-> added, removedLines |-> removed, updatedReleases |-> <<>>,
   addedCount |-> addedCount, removedCount |-> removedCount]

(* compareRosterStep.execute *)
compareRosterStep(st, currentText, timestamp) ==
  LET currentHash == md5(currentText)
      first == ~existsSync(st.hash) \/ falsy(st.roster)
      hasChanged == ~first /\ hashDiffers(currentHash, readFileSync(st.hash))
      currentLines == textLines(currentText)
      previousLines == IF hasChanged THEN textLines(readFileSync(st.roster))
                       ELSE <<>>
      allAddedLines == IF hasChanged
                       THEN linesNotIn(currentLines, previousLines) ELSE <<>>
      allRemovedLines == IF hasChanged
                         THEN linesNotIn(previousLines, currentLines) ELSE <<>>
  IN [differ |-> hasChanged,
      response |-> StepOutput(currentHash, timestamp, first, hasChanged,
                              slice(allAddedLines, MAX_LINES),
                              slice(allRemovedLines, MAX_LINES),
                              Len(allAddedLines), Len(allRemovedLines))]

(* saveHistoryStep.execute, the calls inside its try; the entry carries     *)
(* inputData.timestamp, the time stamp of the compare step                 *)
saveHistoryStep(currentText, inputData) ==
  <<WriteOp("prev_hash.txt", inputData.currentHash),
    WriteOp("prev_roster.txt", currentText)>>
  \o (IF inputData.hasChanged \/ inputData.isFirstRun
      THEN <<WriteOp("change_log.txt",
               <<[LogEntry(IF inputData.isFirstRun THEN "Initial capture"
                           ELSE "Change detected",
                           inputData.timestamp, inputData.addedLines,
                           inputData.removedLines, <<>>, <<>>)
                    EXCEPT !.bookedCount = inputData.addedCount,
                           !.releasedCount = inputData.removedCount]>>)>>
      ELSE <<>>)

(* ------------------------------ inputs --------------------------------- *)
Block(marker, idCap, nameCap, nextLine, bookMatch, bookDate, bookTime, relMatch, relDate, relTime, lines) ==
  [marker |-> marker, idCap |-> idCap, nameCap |-> nameCap,
   nextLine |-> nextLine, bookMatch |-> bookMatch, bookDate |-> bookDate,
   bookTime |-> bookTime, relMatch |-> relMatch, relDate |-> relDate,
   relTime |-> relTime, lines |-> lines, bookPlain |-> TRUE,
   relPlain |-> TRUE]

Line(kind, offense) == [kind |-> kind, offense |-> offense]

(* the text before the first "Booking #:" (page header) *)
Preamble ==
  Block(FALSE, <<>>, <<>>, <<>>, FALSE, 0, 0, "none", 0, 0,
        <<Line("other", "")>>)

(* Booking #: 1 / Name: "D,  J" / Book Date / Rel Date: No Rel Date *)
BlockJane ==
  Block(TRUE, <<"1">>, <<"D", ",", " ", " ", "J">>, <<>>, TRUE, 250102,
        101500, "norel", 0, 0,
        <<Line("booking", ""), Line("marker", ""), Line("header", ""),
          Line("charge", "Theft"), Line("other", ""), Line("charge", "Theft")>>)

(* Booking #: 2 / Name: "R, K" / release date printed / no charge section *)
BlockJohn ==
  Block(TRUE, <<"2">>, <<"R", ",", " ", "K">>, <<>>, TRUE, 250105, 93000,
        "date", 250110, 80000, <<Line("booking", ""), Line("marker", "")>>)

(* Booking #: 1 again, with an edited name, book date and charges.  The    *)
(* name ends in a comma and goes on in the next line; what the pattern of  *)
(* server.js 283 captures there starts with a letter right after the line  *)
(* feed and may end in white space.                                        *)
BlockJaneEdited ==
  Block(TRUE, <<"1">>, <<"D", ",", " ", "J", ",">>, <<"M", " ">>, FALSE, 0, 0,
        "none", 0, 0,
        <<Line("booking", ""), Line("header", ""), Line("charge", "Assault")>>)

BlockBulk(i) ==
  Block(TRUE, <<ToString(100 + i)>>, <<"Q", " ", "Z">>, <<>>, TRUE, 250200 + i, 120000,
        "norel", 0, 0, <<Line("booking", "")>>)

TextEmpty == <<>>
TextA == <<Preamble, BlockJane>>
TextAB == <<Preamble, BlockJane, BlockJohn>>
TextA2 == <<Preamble, BlockJaneEdited>>
TextBig == <<Preamble>> \o [i \in 1..BigN |-> BlockBulk(i)]

(* "Booking #:" with white space only after it: /Booking #:\s*(\S+)/      *)
(* finds no id, and no other pattern finds anything in the block           *)
BlockNoId ==
  Block(TRUE, <<>>, <<>>, <<>>, FALSE, 0, 0, "none", 0, 0,
        <<Line("booking", "")>>)

(* Booking #: 3 / Name: "M, M" / Book Date: 9:30:00 1/1/25: an hour, a     *)
(* month and a day of one digit                                            *)
BlockLoose ==
  [Block(TRUE, <<"3">>, <<"M", ",", " ", "M">>, <<>>, TRUE, 250101, 93000,
         "norel", 0, 0, <<Line("booking", "")>>)
     EXCEPT !.bookPlain = FALSE]

(* booking 1 printed twice, the second time edited, a block without id and *)
(* a booking whose date has one-digit fields                               *)
TextDup ==
  <<Preamble, BlockJane, BlockJohn, BlockNoId, BlockJaneEdited, BlockLoose>>
TextBA == <<Preamble, BlockJohn, BlockJane>>

NarrowTexts == {TextEmpty, TextA, TextAB}
FaultTexts == {TextEmpty, TextAB}
WideTexts == {TextEmpty, TextA, TextAB, TextBA, TextA2, TextDup, TextBig}

FeedLine(date, time, name, releaseType, timeServed, bail) ==
  [date |-> date, time |-> time, name |-> name, releaseType |-> releaseType,
   timeServed |-> timeServed, bail |-> bail]

(* "D, J." cleans to the roster name of BlockJane *)
FeedJane ==
  FeedLine(250111, 141500, <<"D", ",", " ", "J", ".">>, "RPR",
           <<"9", " ", "d", " ", "4", "h", "0", "m">>, 500)

(* "R,  K" cleans to the roster name of BlockJohn *)
FeedJohn ==
  FeedLine(250110, 80000, <<"R", ",", " ", " ", "K">>, "RTS",
           <<"5", "d", "0", "h", "0", "m">>, 0)

(* "D, J F": one more initial than the roster prints for BlockJane *)
FeedJaneDrift ==
  FeedLine(250111, 141500, <<"D", ",", " ", "J", " ", "F">>, "RPR",
           <<"9", "d", "4", "h", "0", "m">>, 500)

Feed(ok, why, lines) == [ok |-> ok, why |-> why, lines |-> lines]

NarrowFeeds ==
  {Feed(FALSE, "status", <<FeedJane>>), Feed(TRUE, "", <<FeedJane>>),
   Feed(TRUE, "", <<FeedJohn, FeedJaneDrift>>)}

WideFeeds ==
  {Feed(FALSE, "status", <<FeedJane>>), Feed(FALSE, "throw", <<>>),
   Feed(TRUE, "", <<>>), Feed(TRUE, "", <<FeedJane>>),
   Feed(TRUE, "", <<FeedJohn, FeedJaneDrift>>)}

(* What a behaviour may draw on: the texts the roster URL can serve, the   *)
(* outcomes of the release feed, the number of requests, of throwing       *)
(* file-system calls and of requests in flight at once.                    *)
(* Bodies posted to /api/admin/merge-logs: a log of an earlier deployment, *)
(* whose RELEASED lines print the release date of the roster.              *)
OldBooked ==
  itemLine([type |-> "BOOKED",
            line |-> formatBooked([name |-> <<"R", ",", " ", "K">>,
                                   bookDate |-> DateTime(250105, 93000),
                                   charges |-> <<>>])])

OldReleased ==
  itemLine([type |-> "RELEASED",
            line |-> PlainReleased([name |-> <<"R", ",", " ", "K">>,
                                    charges |-> <<>>], NotReleased, <<>>)])

(* two lines, the second without a line feed *)
MergeBodies == {<<OldBooked, OldReleased>>}

Config(texts, feeds, maxRuns, maxFaults, maxOverlap, maxWait) ==
  [texts |-> texts, feeds |-> feeds, maxRuns |-> maxRuns,
   maxFaults |-> maxFaults, maxOverlap |-> maxOverlap, maxWait |-> maxWait]

Revisions == {"v1", "v2", "cr", "tool"}

(* what a deployment runs: one of them, or the serverless handler of       *)
(* api/check-roster.js                                                     *)
Deployments == Revisions \cup {"api"}

(* ------------------------------ state ---------------------------------- *)
NoResponse == Response(FALSE, "none", FALSE, FALSE, <<>>, <<>>, <<>>)

ErrorResponse(msg) == Response(FALSE, msg, FALSE, FALSE, <<>>, <<>>, <<>>)

CurrentStore == Store(prev_hash, prev_roster, pending_releases, change_log)

(* What is kept of the section before the latest one. *)
Earlier(l) ==
  [valid |-> l.valid, handler |-> l.handler, proc |-> l.proc,
   before |-> l.before, text |-> l.text,
   applied |-> l.applied, threw |-> l.threw, differ |-> l.differ,
   computed |-> l.computed, inflight |-> l.inflight, ts |-> l.ts]

NoFeed == Feed(FALSE, "none", <<>>)

NoEarlier ==
  [valid |-> FALSE, handler |-> "none", proc |-> 0,
   before |-> Store(NoFile, NoFile, NoFile, <<>>),
   text |-> <<>>, applied |-> <<>>, threw |-> FALSE, differ |-> FALSE,
   computed |-> NoResponse, inflight |-> {}, ts |-> 0]

(* computed: the result the section had built when it reached its writes;  *)
(* inflight: the requests that were between their awaits at that time;     *)
(* over: the first section of another request that ran while the request   *)
(* of this section was between its awaits, if there was one.               *)
LastRun(valid, p, before, txt, feed, stats, applied, threw, differ, response, ts, computed, inflight, prev) ==
  [valid |-> valid, handler |-> "none", proc |-> p, before |-> before, text |-> txt,
   feed |-> feed, stats |-> stats, applied |-> applied, threw |-> threw,
   differ |-> differ, response |-> response, ts |-> ts,
   computed |-> computed, inflight |-> inflight, prev |-> prev,
   over |-> NoEarlier]

NoRun ==
  LastRun(FALSE, 0, Store(NoFile, NoFile, NoFile, <<>>), <<>>, NoFeed,
          EmptyMap, <<>>, FALSE, FALSE, NoResponse, 0, NoResponse, {}, NoEarlier)

(* pure holds the input and the outputs of the functions that are checked  *)
(* on their own; the handlers leave it alone.                              *)
NoInput == [fn |-> "none"]

(* fetch_log orders the requests in flight by the time their roster        *)
(* arrived: waiting lists those whose text has arrived and is not yet      *)
(* stored, oldest first; stale holds those whose text arrived before the   *)
(* text that is stored now; regressed tells that the stored text was       *)
(* written by a request that was stale; seen[p] is the first section of    *)
(* another request that ran while request p of /api/run of server.js was   *)
(* between its awaits.                                                     *)
NoFetch ==
  [waiting |-> <<>>, stale |-> {}, regressed |-> FALSE,
   seen |-> [p \in Procs |-> NoEarlier]]

(* What the section of request p does to the order: applied are the files  *)
(* it wrote, threw tells that its run ended in the catch.                  *)
fetchLogAfter(p, applied, threw) ==
  LET w == fetch_log.waiting
      wrote == \E i \in 1..Len(applied) : applied[i] = "prev_roster.txt"
      listed == \E i \in 1..Len(w) : w[i] = p
      earlier == IF listed
                 THEN {w[i] : i \in {j \in 1..Len(w) :
                                       \E k \in (j + 1)..Len(w) : w[k] = p}}
                 ELSE {w[i] : i \in 1..Len(w)}
      done == threw \/ wrote
  IN [waiting |-> IF done THEN SelectSeq(w, LAMBDA q : q # p)
                  ELSE IF listed THEN w ELSE Append(w, p),
      stale |-> (IF wrote THEN fetch_log.stale \cup earlier
                 ELSE fetch_log.stale) \ (IF done THEN {p} ELSE {}),
      regressed |-> IF wrote THEN p \in fetch_log.stale
                    ELSE fetch_log.regressed,
      seen |-> fetch_log.seen]

(* The sections the requests in flight have seen, after section l of       *)
(* request p; kept for the requests of /api/run of server.js.              *)
seenAfter(p, l) ==
  [q \in Procs |->
     IF q = p \/ rev \notin {"v1", "v2"} THEN NoEarlier
     ELSE IF pc[q] # "idle" /\ ~fetch_log.seen[q].valid THEN Earlier(l)
     ELSE fetch_log.seen[q]]

InitWith(c) ==
  /\ rev \in Deployments
  /\ cfg = c
  /\ prev_hash = NoFile
  /\ prev_roster = NoFile
  /\ pending_releases = NoFile
  /\ change_log = <<>>
  /\ pc = [p \in Procs |-> "idle"]
  /\ text = [p \in Procs |-> <<>>]
  /\ result = [p \in Procs |-> NoResponse]
  /\ runs = 0
  /\ faults = 0
  /\ clock = 0
  /\ waited = 0
  /\ last = NoRun
  /\ pure = NoInput
  /\ fetch_log = NoFetch

(* One synchronous section of handler h: the first n calls of ops take     *)
(* effect; when threw, call n + 1 raised and the handler's catch answered. *)
(* The section makes its time stamp at clock + 1 and reads the clock for   *)
(* the last time spent seconds later.                                      *)
Commit(h, p, txt, feed, stats, ops, n, threw, differ, response, computed, spent) ==
  \E st \in {applyOps(CurrentStore, ops, n)} :
  /\ prev_hash' = st.hash
  /\ prev_roster' = st.roster
  /\ pending_releases' = st.pending
  /\ change_log' = st.log
  /\ clock' = clock + 1 + spent
  /\ waited' = waited + spent
  /\ faults' = IF threw THEN faults + 1 ELSE faults
  /\ last' = [LastRun(TRUE, p, CurrentStore, txt, feed, stats,
                      opNames(ops, n), threw, differ, response, clock + 1,
                      computed, {q \in Procs : q # p /\ pc[q] # "idle"},
                      Earlier(last))
               EXCEPT !.handler = h, !.over = fetch_log.seen[p]]
  /\ result' = [result EXCEPT ![p] = response]
  /\ fetch_log' = [fetchLogAfter(p, opNames(ops, n), threw)
                     EXCEPT !.seen = seenAfter(p, last')]

(* A request arrives: the handler starts and awaits fetch(PDF_URL). *)
StartRun(p) ==
  /\ pc[p] = "idle"
  /\ runs < cfg.maxRuns
  /\ \A q \in Procs : q < p => pc[q] # "idle"
  /\ Cardinality({q \in Procs : pc[q] # "idle"}) < cfg.maxOverlap
  /\ pc' = [pc EXCEPT ![p] = "fetch"]
  /\ runs' = runs + 1
  /\ UNCHANGED <<pure, fetch_log, rev, cfg, prev_hash, prev_roster, pending_releases,
                 change_log, text, result, faults, clock, waited, last>>

(* A failed fetch that clears the stored fingerprint on its way out. *)
FetchFailPartial(p, msg) ==
  /\ pc[p] = "fetch"
  /\ pc' = [pc EXCEPT ![p] = "idle"]
  /\ result' = [result EXCEPT ![p] = ErrorResponse(msg)]
  /\ prev_hash' = NoFile
  /\ fetch_log' = [fetch_log EXCEPT !.seen[p] = NoEarlier]
  /\ UNCHANGED <<pure, rev, cfg, prev_roster, pending_releases,
                 change_log, text, runs, faults, clock, waited, last>>

(* fetch(PDF_URL) rejects, or answers with a non-success status. *)
FetchFail(p, msg) ==
  /\ pc[p] = "fetch"
  /\ pc' = [pc EXCEPT ![p] = "idle"]
  /\ result' = [result EXCEPT ![p] = ErrorResponse(msg)]
  /\ fetch_log' = [fetch_log EXCEPT !.seen[p] = NoEarlier]
  /\ UNCHANGED <<pure, rev, cfg, prev_hash, prev_roster, pending_releases,
                 change_log, text, runs, faults, clock, waited, last>>

(* The text a request works on.  The workflow steps hand on the path of    *)
(* .data/current_text.txt (rosterTools.mjs 1020, 1076, 1121, 1293) and the *)
(* bundle's GET /api/run writes the same file (1797-1798), so each run of  *)
(* the workflow between its steps reads what was written there last; the   *)
(* tools and the other handlers hand on the text itself.                   *)
writeText(p, txt) ==
  [q \in Procs |-> IF q = p \/ pc[q] \in {"stepcompare", "stepsave"}
                   THEN txt ELSE text[q]]

(* The roster arrives and is parsed to text; /api/run goes on to await     *)
(* fetchReleaseStats, the tools go on to the compare tool.                 *)
FetchRoster(p, txt) ==
  /\ pc[p] = "fetch"
  /\ rev \in {"v1", "v2", "tool"}
  /\ pc' = [pc EXCEPT ![p] = IF rev = "tool" THEN "compare" ELSE "stats"]
  /\ text' = [text EXCEPT ![p] = txt]
  /\ fetch_log' = [fetch_log EXCEPT !.waiting = Append(@, p)]
  /\ UNCHANGED <<pure, rev, cfg, prev_hash, prev_roster, pending_releases,
                 change_log, result, runs, faults, clock, waited, last>>

(* extractTextStep of the workflow, rosterTools.mjs 1055-1094: the roster  *)
(* arrives, its text is written to current_text.txt and the workflow goes  *)
(* on to compareRosterStep.                                                *)
extractTextStep(p, txt) ==
  /\ pc[p] = "fetch"
  /\ rev = "tool"
  /\ pc' = [pc EXCEPT ![p] = "stepcompare"]
  /\ text' = writeText(p, txt)
  /\ fetch_log' = [fetch_log EXCEPT !.waiting = Append(@, p)]
  /\ UNCHANGED <<pure, rev, cfg, prev_hash, prev_roster, pending_releases,
                 change_log, result, runs, faults, clock, waited, last>>

(* The end of a synchronous section whose file-system calls are ops: all   *)
(* of them take effect, or call k throws (k > 0) and the catch answers.    *)
Settle(h, p, txt, feed, stats, ops, differ, response, failure, spent) ==
  \E k \in 0..Len(ops) :
    /\ k > 0 => faults < cfg.maxFaults
    /\ IF k = 0
       THEN Commit(h, p, txt, feed, stats, ops, Len(ops), FALSE, differ, response,
                   response, spent)
       ELSE Commit(h, p, txt, feed, stats, ops, k - 1, TRUE, differ,
                   ErrorResponse(failure), response, spent)

(* The writes of the later /api/run for the comparison d, with the clock  *)
(* readings ticks of its pushed changes.                                   *)
Section(p, feed, stats, d, ticks) ==
  \E run \in {writeV2(d, ticks)} :
    Settle(rev, p, text[p], feed, stats, run.ops, run.differ, run.response,
           "write failed", d.spent)

(* A handler that works on the stored state as the section before it     *)
(* loaded it.                                                              *)
FinishRunStale(p, feed) ==
  /\ pc[p] = "stats"
  /\ \E stats \in {fetchReleaseStats(feed)},
        loaded \in {IF last.valid THEN last.before ELSE CurrentStore} :
       IF rev = "v1"
       THEN \E run \in {runV1(loaded, text[p], stats, clock + 1)} :
              Settle(rev, p, text[p], feed, stats, run.ops, run.differ,
                     run.response, "write failed", 0)
       ELSE \E reads \in TickSeqs(timedCount(compareV2(loaded, text[p], stats,
                                                       clock + 1)),
                                    cfg.maxWait - waited) :
              \E d \in {diffV2(loaded, text[p], stats, clock + 1, reads)} :
                \E ticks \in TickSeqs(undatedCount(d), MaxTicks) :
                  Section(p, feed, stats, d, ticks)
  /\ pc' = [pc EXCEPT ![p] = "idle"]
  /\ UNCHANGED <<pure, rev, cfg, text, runs>>

(* fetchReleaseStats settles and /api/run runs to its response.  In the    *)
(* later revision reads are the seconds the clock shows in the calls of    *)
(* formatReleased that find no release details, and ticks the times it     *)
(* shows while the changes are pushed, one for each pushed line without a  *)
(* date (d is diffV2 of the store, the text and reads).  The sections of   *)
(* one behaviour wait no more than cfg.maxWait seconds in all.             *)
FinishRun(p, feed) ==
  /\ pc[p] = "stats"
  /\ \E stats \in {fetchReleaseStats(feed)} :
       IF rev = "v1"
       THEN \E run \in {runV1(CurrentStore, text[p], stats, clock + 1)} :
              Settle(rev, p, text[p], feed, stats, run.ops, run.differ,
                     run.response, "write failed", 0)
       ELSE \E d0 \in {compareV2(CurrentStore, text[p], stats, clock + 1)} :
              \E reads \in TickSeqs(timedCount(d0), cfg.maxWait - waited) :
                \E d \in {readClock(d0, reads)} :
                  \E ticks \in TickSeqs(undatedCount(d), MaxTicks) :
                    Section(p, feed, stats, d, ticks)
  /\ pc' = [pc EXCEPT ![p] = "idle"]
  /\ UNCHANGED <<pure, rev, cfg, text, runs>>

(* /api/check-roster has no second fetch: the roster arrives and the       *)
(* handler runs to its response.                                           *)
CheckRoster(p, txt) ==
  /\ pc[p] = "fetch"
  /\ rev = "cr"
  /\ \E run \in {runCr(CurrentStore, txt, clock + 1)} :
       Settle("cr", p, txt, NoFeed, EmptyMap, run.ops, run.differ, run.response,
              "write failed", 0)
  /\ pc' = [pc EXCEPT ![p] = "idle"]
  /\ text' = [text EXCEPT ![p] = txt]
  /\ UNCHANGED <<pure, rev, cfg, runs>>

(* The handler of api/check-roster.js: the roster arrives and the handler  *)
(* runs to its response.                                                   *)
ApiCheckRoster(p, txt) ==
  /\ pc[p] = "fetch"
  /\ rev = "api"
  /\ \E run \in {runApi(CurrentStore, txt, clock + 1)} :
       Settle("api", p, txt, NoFeed, EmptyMap, run.ops, run.differ, run.response,
              "write failed", 0)
  /\ pc' = [pc EXCEPT ![p] = "idle"]
  /\ text' = [text EXCEPT ![p] = txt]
  /\ UNCHANGED <<pure, rev, cfg, runs>>

(* GET /api/run of the bundle: the roster arrives, the handler writes the *)
(* text to current_text.txt and runs to its response.                      *)
BundleRun(p, txt) ==
  /\ pc[p] = "fetch"
  /\ rev = "tool"
  /\ \E run \in {runBundle(CurrentStore, txt, clock + 1)} :
       Settle("run", p, txt, NoFeed, EmptyMap, run.ops, run.differ, run.response,
              "write failed", 0)
  /\ pc' = [pc EXCEPT ![p] = "idle"]
  /\ text' = writeText(p, txt)
  /\ UNCHANGED <<pure, rev, cfg, runs>>

(* ------ maintenance routes of the later revision of server.js ---------- *)
(* Each handler is one synchronous section, served at any time, also while *)
(* requests of /api/run are between their awaits; the routes count as      *)
(* requests.  The record of the latest run describes the store the run     *)
(* left; it is dropped when a route changes that store, while what the     *)
(* requests in flight have seen (fetch_log.seen) stays.  partial holds the *)
(* stores a throwing file-system call of the handler leaves that differ    *)
(* from the store before: the catch of the route answers and nothing is    *)
(* put back.  A call that throws before the handler has changed a file     *)
(* leaves the store as it was.                                             *)
Maintain(h, r, l, partial) ==
  /\ rev = "v2"
  /\ runs < cfg.maxRuns
  /\ \E threw \in BOOLEAN :
       /\ threw => faults < cfg.maxFaults /\ partial # {}
       /\ \E st \in (IF threw THEN partial
                     ELSE {Store(h, r, pending_releases, l)}) :
            /\ prev_hash' = st.hash
            /\ prev_roster' = st.roster
            /\ change_log' = st.log
            /\ last' = IF st # CurrentStore THEN NoRun ELSE last
            /\ runs' = IF st # CurrentStore THEN runs + 1 ELSE runs
       /\ faults' = IF threw THEN faults + 1 ELSE faults
  /\ UNCHANGED <<pure, fetch_log, rev, cfg, pending_releases, pc, text,
                 result, clock, waited>>

(* GET /api/debug/reset, server.js 1106-1132: unlinks prev_hash.txt and    *)
(* prev_roster.txt, each when it exists; the log and the pending queue     *)
(* stay.  When the second unlinkSync throws, prev_hash.txt is gone and     *)
(* prev_roster.txt is still there.                                         *)
DebugReset ==
  Maintain(NoFile, NoFile, change_log,
           IF existsSync(prev_hash) /\ existsSync(prev_roster)
           THEN {Store(NoFile, prev_roster, pending_releases, change_log)}
           ELSE {})

(* GET /api/admin/deduplicate, server.js 1958-1985 *)
Deduplicate ==
  Maintain(prev_hash, prev_roster,
           writeLines(change_log, uniqueLines(fileLines(change_log))), {})

(* GET /api/admin/fix-releases, server.js 1050-1104 *)
FixReleases ==
  Maintain(prev_hash, prev_roster,
           writeLines(change_log, fixReleases(fileLines(change_log))), {})

(* POST /api/admin/merge-logs, server.js 2672-2693:                        *)
(* fs.appendFileSync(logFile, "\n" + body)                                 *)
MergeLogs(body) ==
  Maintain(prev_hash, prev_roster,
           Append(change_log,
                  [LogEntry("merged", 0, <<>>, <<>>, <<>>, <<>>)
                     EXCEPT !.lines = body]), {})

(* compareRosterTool.execute: reads the store, writes nothing. *)
ToolCompare(p) ==
  /\ pc[p] = "compare"
  /\ rev = "tool"
  /\ \E cmp \in {compareRosterTool(CurrentStore, text[p], clock + 1)} :
       Commit("tool", p, text[p], NoFeed, EmptyMap, <<>>, 0, FALSE, cmp.differ,
              cmp.response, cmp.response, 0)
  /\ pc' = [pc EXCEPT ![p] = "save"]
  /\ UNCHANGED <<pure, rev, cfg, text, runs>>

(* saveRosterHistoryTool.execute with the text and with the hash, the     *)
(* time stamp and the lists the compare tool returned; a throwing write    *)
(* is caught and answered with success: false.                             *)
ToolSave(p) ==
  /\ pc[p] = "save"
  /\ rev = "tool"
  /\ \E ops \in {saveRosterHistoryTool(
                    SaveContext(text[p], result[p].currentHash,
                                result[p].timestamp, result[p].hasChanged,
                                result[p].addedLines, result[p].removedLines))} :
       Settle("tool", p, text[p], NoFeed, EmptyMap, ops,
              /\ existsSync(result[p].previousHash)
              /\ hashDiffers(result[p].currentHash,
                             readFileSync(result[p].previousHash)),
              result[p], "Failed to save", 0)
  /\ pc' = [pc EXCEPT ![p] = "idle"]
  /\ UNCHANGED <<pure, rev, cfg, text, runs>>

(* compareRosterStep: reads the store and the extracted text, writes       *)
(* nothing.                                                                *)
StepCompare(p) ==
  /\ pc[p] = "stepcompare"
  /\ rev = "tool"
  /\ \E cmp \in {compareRosterStep(CurrentStore, text[p], clock + 1)} :
       Commit("step", p, text[p], NoFeed, EmptyMap, <<>>, 0, FALSE, cmp.differ,
              cmp.response, cmp.response, 0)
  /\ pc' = [pc EXCEPT ![p] = "stepsave"]
  /\ UNCHANGED <<pure, rev, cfg, text, runs>>

(* saveHistoryStep with the output of the compare step: a throwing write   *)
(* is caught, the step returns historySaved: false with the compare data   *)
(* and the workflow goes on to its last step, which answers success: true. *)
StepSave(p) ==
  /\ pc[p] = "stepsave"
  /\ rev = "tool"
  /\ \E ops \in {saveHistoryStep(text[p], result[p])} :
        \E k \in 0..Len(ops) :
          /\ k > 0 => faults < cfg.maxFaults
          /\ IF k = 0
             THEN Commit("step", p, text[p], NoFeed, EmptyMap, ops,
                         Len(ops), FALSE,
                         result[p].hasChanged, result[p], result[p], 0)
             ELSE Commit("step", p, text[p], NoFeed, EmptyMap, ops,
                         k - 1, TRUE,
                         result[p].hasChanged, result[p], result[p], 0)
  /\ pc' = [pc EXCEPT ![p] = "idle"]
  /\ UNCHANGED <<pure, rev, cfg, text, runs>>

Next ==
  \/ \E p \in Procs : StartRun(p)
  \/ \E p \in Procs, msg \in {"Failed to download PDF", "fetch failed"} :
       FetchFail(p, msg)
  \/ \E p \in Procs, txt \in cfg.texts : FetchRoster(p, txt)
  \/ \E p \in Procs, feed \in cfg.feeds : FinishRun(p, feed)
  \/ \E p \in Procs, txt \in cfg.texts : CheckRoster(p, txt)
  \/ \E p \in Procs, txt \in cfg.texts : ApiCheckRoster(p, txt)
  \/ \E p \in Procs : ToolCompare(p)
  \/ \E p \in Procs : ToolSave(p)
  \/ \E p \in Procs, txt \in cfg.texts : extractTextStep(p, txt)
  \/ \E p \in Procs : StepCompare(p)
  \/ \E p \in Procs : StepSave(p)
  \/ \E p \in Procs, txt \in cfg.texts : BundleRun(p, txt)
  \/ DebugReset
  \/ Deduplicate
  \/ FixReleases
  \/ \E body \in MergeBodies : MergeLogs(body)

(* Sequential requests over the three small rosters, no throwing write;   *)
(* the clock moves on while a section runs.                                *)
Init == InitWith(Config(NarrowTexts, NarrowFeeds, MaxRuns, 0, 1, MaxWait))

Spec == Init /\ [][Next]_vars

(* Few requests over all rosters and feeds, no throwing write. *)
InitWide == InitWith(Config(WideTexts, WideFeeds, WideRuns, 0, 1, 0))

SpecWide == InitWide /\ [][Next]_vars

(* Few requests over the empty roster and the roster of two bookings, *)
(* with throwing writes.                                              *)
InitFault ==
  InitWith(Config(FaultTexts, NarrowFeeds, FaultRuns, MaxFaults, 1, 0))

SpecFault == InitFault /\ [][Next]_vars

(* The deployment of rosterTools.mjs: the workflow, the tools and GET      *)
(* /api/run on one .data directory, up to NProcs requests at a time, with  *)
(* throwing writes.                                                        *)
InitStep ==
  /\ rev = "tool"
  /\ cfg = Config(NarrowTexts, {}, StepRuns, MaxFaults, NProcs, 0)
  /\ prev_hash = NoFile
  /\ prev_roster = NoFile
  /\ pending_releases = NoFile
  /\ change_log = <<>>
  /\ pc = [p \in Procs |-> "idle"]
  /\ text = [p \in Procs |-> <<>>]
  /\ result = [p \in Procs |-> NoResponse]
  /\ runs = 0
  /\ faults = 0
  /\ clock = 0
  /\ waited = 0
  /\ last = NoRun
  /\ pure = NoInput
  /\ fetch_log = NoFetch

NextStep ==
  \/ \E p \in Procs : StartRun(p)
  \/ \E p \in Procs, msg \in {"Failed to download PDF", "fetch failed"} :
       FetchFail(p, msg)
  \/ \E p \in Procs, txt \in cfg.texts : FetchRoster(p, txt)
  \/ \E p \in Procs : ToolCompare(p)
  \/ \E p \in Procs : ToolSave(p)
  \/ \E p \in Procs, txt \in cfg.texts : extractTextStep(p, txt)
  \/ \E p \in Procs : StepCompare(p)
  \/ \E p \in Procs : StepSave(p)
  \/ \E p \in Procs, txt \in cfg.texts : BundleRun(p, txt)

SpecStep == InitStep /\ [][NextStep]_vars

(* ------------------ functions checked on their own --------------------- *)
(* The store is empty and no request is made; pure holds one input.        *)
InitPure(revs, inputs) ==
  /\ rev \in revs
  /\ cfg = Config({}, {}, 0, 0, 0, 0)
  /\ prev_hash = NoFile
  /\ prev_roster = NoFile
  /\ pending_releases = NoFile
  /\ change_log = <<>>
  /\ pc = [p \in Procs |-> "idle"]
  /\ text = [p \in Procs |-> <<>>]
  /\ result = [p \in Procs |-> NoResponse]
  /\ runs = 0
  /\ faults = 0
  /\ clock = 0
  /\ waited = 0
  /\ last = NoRun
  /\ pure \in inputs
  /\ fetch_log = NoFetch

(* The name the feed's line pattern captures: capitals, periods and white  *)
(* space; a line is cut at line feeds only, so a tab or a carriage return  *)
(* can stand in it.                                                        *)
NameChars == {"A", ".", " ", "\t"}

NameStrings == UNION {[1..n -> NameChars] : n \in 0..MaxNameLen}

(* server.js 48: the cleaning expression, applied to the name and then to  *)
(* its own output                                                          *)
ApplyClean ==
  /\ pure.fn = "cleanName"
  /\ Len(pure.outs) < 2
  /\ pure' = [pure EXCEPT !.outs =
               Append(@, cleanName(IF @ = <<>> THEN pure.input
                                   ELSE @[Len(@)]))]
  /\ UNCHANGED <<fetch_log, rev, cfg, prev_hash, prev_roster, pending_releases,
                 change_log, pc, text, result, runs, faults, clock, waited, last>>

InitClean ==
  InitPure({"v1"}, {[fn |-> "cleanName", input |-> s, outs |-> <<>>] :
                      s \in NameStrings})

NextClean == ApplyClean

SpecClean == InitClean /\ [][NextClean]_vars

(* The lines that can follow the first line of a block of the split. *)
BodyLines ==
  {Line("header", ""), Line("charge", "Theft"), Line("marker", ""),
   Line("page", ""), Line("other", "")}

BlockBodies == UNION {[1..n -> BodyLines] : n \in 0..MaxBlockLines}

(* The first token of a line of each kind: what /Booking #:\s*(\S+)/       *)
(* takes for the id when the marker ends its line and that line follows.   *)
(* The charge patterns of server.js (323, 990-1003) take the offense out   *)
(* of a line printed without blanks, statute, offense, court and class in  *)
(* one token; those of /api/check-roster and rosterTools.mjs take it out   *)
(* of a line whose fields are set apart by blanks.                         *)
LineToken(r, l) ==
  CASE l.kind = "header" -> "StatuteOffenseCourtOffenseClass"
    [] l.kind = "charge" -> IF r \in {"v1", "v2"}
                            THEN "9A.56.020TheftDISTGMGM" ELSE "9A.56.020"
    [] l.kind = "marker" -> "Name"
    [] l.kind = "page"   -> "Page"
    [] OTHER             -> "Sex:"

(* rosterText.split(/(?=Booking #:)/) gives a first block without the      *)
(* marker and blocks that start with it.  The id pattern skips white       *)
(* space, line ends included, and takes the next token: the booking        *)
(* number printed after the marker, or the first token of the next line    *)
(* when the marker ends its line; it finds nothing only when white space   *)
(* alone follows the marker.                                               *)
ExtractBlocks(r) ==
  {Block(FALSE, <<>>, <<>>, <<>>, FALSE, 0, 0, "none", 0, 0, body) :
     body \in BlockBodies}
  \cup
  {Block(TRUE, <<"7">>, <<"D", ",">>, <<"J">>, TRUE, 250101, 120000, "norel",
         0, 0, <<Line("booking", "")>> \o body) : body \in BlockBodies}
  \cup
  {Block(TRUE, <<LineToken(r, body[1])>>, <<>>, <<>>, FALSE, 0, 0, "none", 0, 0,
         <<Line("booking", "")>> \o body) : body \in BlockBodies \ {<<>>}}
  \cup {BlockNoId}

(* extractBookings / parseRosterToBookings applied to a one-block roster *)
ApplyExtract ==
  /\ pure.fn = "extractBookings"
  /\ ~pure.done
  /\ pure' = [pure EXCEPT !.done = TRUE,
                          !.out = extractBookings(rev, <<pure.input>>)]
  /\ UNCHANGED <<fetch_log, rev, cfg, prev_hash, prev_roster, pending_releases,
                 change_log, pc, text, result, runs, faults, clock, waited, last>>

InitExtract ==
  \E r \in Revisions :
    InitPure({r},
             {[fn |-> "extractBookings", input |-> b, done |-> FALSE,
               out |-> <<>>] : b \in ExtractBlocks(r)})

NextExtract == ApplyExtract

SpecExtract == InitExtract /\ [][NextExtract]_vars

(* Blocks whose Book Date: and Rel Date: lines match their pattern or do   *)
(* not; the release pattern matches on a time and a date or on the words   *)
(* "No Rel Date".                                                          *)
DateBlocks ==
  {[Block(TRUE, <<"7">>, <<"D", ",">>, <<"J">>, bookMatch, bookDate, bookTime,
          relMatch, relDate, relTime, <<Line("booking", "")>>)
      EXCEPT !.bookPlain = bookPlain, !.relPlain = relPlain] :
     bookMatch \in BOOLEAN, bookDate \in {250101, 250102},
     bookTime \in {93000, 120000}, relMatch \in {"date", "norel", "none"},
     relDate \in {250103, 250104}, relTime \in {80000},
     bookPlain \in BOOLEAN, relPlain \in BOOLEAN}

InitDates ==
  InitPure(Revisions,
           {[fn |-> "extractBookings", input |-> b, done |-> FALSE,
             out |-> <<>>] : b \in DateBlocks})

SpecDates == InitDates /\ [][NextExtract]_vars

(* Requests to server.js that overlap: up to NProcs of them between their *)
(* awaits, and the maintenance routes between any two of their sections.   *)
(* A slot of Procs is free again when its request has answered, so a       *)
(* further request can start, fetch and run to its response while others   *)
(* are still between their awaits.                                         *)
OverlapTexts == {TextA, TextAB}
OverlapFeeds == {Feed(TRUE, "", <<FeedJane>>)}

(* The .data directory a first request over TextA leaves, at clock 1: the  *)
(* files survive the process, so a server can start over them.  A first    *)
(* run reads the clock once, so no other outcome exists.                   *)
FirstRunStore(r) ==
  LET none == Store(NoFile, NoFile, NoFile, <<>>)
      stats == fetchReleaseStats(Feed(TRUE, "", <<FeedJane>>))
      ops == IF r = "v1" THEN runV1(none, TextA, stats, 1).ops
             ELSE writeV2(diffV2(none, TextA, stats, 1, <<>>), <<>>).ops
  IN applyOps(none, ops, Len(ops))

(* The server starts over an empty .data directory or over the one a first *)
(* request left.                                                           *)
InitOverlap ==
  /\ rev \in {"v1", "v2"}
  /\ cfg = Config(OverlapTexts, OverlapFeeds, OverlapRuns, 0, NProcs, 0)
  /\ \E st \in {Store(NoFile, NoFile, NoFile, <<>>), FirstRunStore(rev)} :
       /\ prev_hash = st.hash
       /\ prev_roster = st.roster
       /\ pending_releases = st.pending
       /\ change_log = st.log
       /\ clock = IF existsSync(st.hash) THEN 1 ELSE 0
  /\ pc = [p \in Procs |-> "idle"]
  /\ text = [p \in Procs |-> <<>>]
  /\ result = [p \in Procs |-> NoResponse]
  /\ runs = 0
  /\ faults = 0
  /\ waited = 0
  /\ last = NoRun
  /\ pure = NoInput
  /\ fetch_log = NoFetch

(* the requests one deployment of server.js serves *)
NextServer ==
  \/ \E p \in Procs : StartRun(p)
  \/ \E p \in Procs, msg \in {"Failed to download PDF", "fetch failed"} :
       FetchFail(p, msg)
  \/ \E p \in Procs, txt \in cfg.texts : FetchRoster(p, txt)
  \/ \E p \in Procs, feed \in cfg.feeds : FinishRun(p, feed)
  \/ DebugReset
  \/ Deduplicate
  \/ FixReleases
  \/ \E body \in MergeBodies : MergeLogs(body)

SpecOverlap == InitOverlap /\ [][NextServer]_vars

(* Every deployment with all of it at once: requests that overlap, also    *)
(* between the compare tool and the save tool, throwing writes, and a      *)
(* clock that moves on while a section runs.                               *)
InitMixed ==
  InitWith(Config(NarrowTexts, NarrowFeeds, MixedRuns, MaxFaults, NProcs,
                  MaxWait))

SpecMixed == InitMixed /\ [][Next]_vars

(* ============================ properties =============================== *)
(* last describes the latest synchronous section: the store it started     *)
(* from (last.before), its inputs, and its response; the store it left is  *)
(* the current one.                                                        *)
Completed == last.valid /\ ~last.threw /\ last.response.ok

Appended == SubSeq(change_log, Len(last.before.log) + 1, Len(change_log))

QueueOf(f) == IF existsSync(f) THEN readFileSync(f) ELSE <<>>
BeforePending == QueueOf(last.before.pending)
AfterPending == QueueOf(pending_releases)

ids(bookings) == {bookings[i].id : i \in 1..Len(bookings)}

(* the handler of the latest section: the running revision, or the        *)
(* bundle's own GET /api/run                                               *)
Handler == IF last.valid THEN last.handler ELSE rev

PrevBookings ==
  IF existsSync(last.before.roster)
  THEN extractBookings(Handler, readFileSync(last.before.roster)) ELSE <<>>

CurBookings == extractBookings(Handler, last.text)

(* the records the id sets single out, in roster order *)
ExpectedAdded ==
  LET previous == ids(PrevBookings)
  IN SelectSeq(CurBookings, LAMBDA b : b.id \notin previous)

ExpectedRemoved ==
  LET current == ids(CurBookings)
  IN SelectSeq(PrevBookings, LAMBDA b : b.id \notin current)

RemovedNow == IF last.differ THEN ExpectedRemoved ELSE <<>>

Range(s) == {s[i] : i \in 1..Len(s)}

FirstN(s, n) == [i \in 1..(IF Len(s) < n THEN Len(s) ELSE n) |-> s[i]]

Lines(s, F(_)) == [i \in 1..Len(s) |-> F(s[i])]

QueuedNow(b) ==
  \E j \in 1..Len(AfterPending) :
    AfterPending[j].bookingData = b /\ AfterPending[j].detectedAt = last.ts

(* C1: on a run whose fingerprint differs from the stored one, the added   *)
(* records are exactly those whose id is in the current roster and not in  *)
(* the previous one, the removed records exactly those whose id is in the  *)
(* previous and not in the current one; the handlers of server.js and      *)
(* /api/check-roster report the first 30 of each list, compareRosters the  *)
(* whole lists, the handler of api/check-roster.js the numbers of the ids  *)
(* that extractBookingIds finds in one text and not in the other.  A       *)
(* removed record without release details is listed by the later /api/run  *)
(* with the time of a clock reading of the run.  compareRosterStep of the  *)
(* workflow builds no id -> record mapping, it compares the lines of the   *)
(* two texts (C15, C29), and is no differ of this kind.                    *)
C1_AddedRemovedById ==
  (Completed /\ last.differ /\ Handler # "step") =>
    LET r == last.response
    IN CASE Handler = "v1" ->
              /\ r.addedLines = FirstN(Lines(ExpectedAdded, formatBooked), MAX_LINES)
              /\ r.removedLines =
                   FirstN(Lines(ExpectedRemoved,
                            LAMBDA b : formatReleased(b, last.stats, TRUE).text),
                          MAX_LINES)
         [] Handler = "v2" ->
              /\ r.addedLines = FirstN(Lines(ExpectedAdded, formatBooked), MAX_LINES)
              /\ \E gone \in {FirstN(ExpectedRemoved, MAX_LINES)} :
                   /\ Len(r.removedLines) = Len(gone)
                   /\ \A i \in 1..Len(gone) :
                        /\ r.removedLines[i] =
                             formatReleased2(gone[i], last.stats, TRUE,
                                             r.removedLines[i].date).text
                        /\ ~statsHas(last.stats, gone[i].name) =>
                             /\ r.removedLines[i].date
                                  = nowStamp(r.removedLines[i].date.time)
                             /\ last.ts <= r.removedLines[i].date.time
                             /\ r.removedLines[i].date.time <= clock
         [] Handler \in {"cr", "run"} ->
              /\ r.addedLines = FirstN(Lines(ExpectedAdded, formatBooked), MAX_LINES)
              /\ r.removedLines =
                   FirstN(Lines(ExpectedRemoved, formatReleasedCr), MAX_LINES)
         [] Handler = "tool" ->
              /\ r.addedLines = Lines(ExpectedAdded, formatBookingForDisplay)
              /\ r.removedLines = Lines(ExpectedRemoved, formatBookingForDisplay)
         [] Handler = "api" ->
              \E cur \in {extractBookingIds(last.text)},
                 old \in {extractBookingIds(readFileSync(last.before.roster))} :
                /\ r.addedLines =
                     SelectSeq(cur, LAMBDA id : id \notin Range(old))
                /\ r.removedLines =
                     SelectSeq(old, LAMBDA id : id \notin Range(cur))
                /\ r.bookings = Len(r.addedLines)
                /\ r.releases = Len(r.removedLines)

(* a changed run of /api/run with more than 30 added records and one       *)
(* removed record                                                          *)
C1_Witness ==
  /\ rev = "v1" /\ Completed /\ last.differ
  /\ Len(ExpectedAdded) > MAX_LINES
  /\ Len(last.response.addedLines) = MAX_LINES
  /\ Len(ExpectedRemoved) = 1
  /\ Len(last.response.removedLines) = 1

(* ---- the pending queue and the UPDATED blocks of the log ---- *)
UpdateBlocks(entries) ==
  SelectSeq(entries, LAMBDA x : x.kind = "Release details update")

(* pending entries of the starting queue whose name is a key of this run's *)
(* release details, and those whose name is not                            *)
Resolved ==
  SelectSeq(BeforePending, LAMBDA e : e.name \in DOMAIN last.stats)

Unmatched ==
  SelectSeq(BeforePending, LAMBDA e : e.name \notin DOMAIN last.stats)

RECURSIVE Sum(_)
Sum(numbers) ==
  IF numbers = <<>> THEN 0 ELSE Head(numbers) + Sum(Tail(numbers))

Total(entries, Count(_)) == Sum([i \in 1..Len(entries) |-> Count(entries[i])])

PendingMarked(x) ==
  Cardinality({i \in 1..Len(x.released) : x.released[i].mark = PendingMark})

(* C2: in the pending-tracking /api/run, a booking that disappears with no *)
(* matching release detail is queued; in the first later run whose release *)
(* details have its name as a key, changed roster or not, it is written as *)
(* one UPDATED line and taken off the queue, and no later run writes it    *)
(* again: every line ever logged as pending is either still queued or has  *)
(* exactly one UPDATED line in the log.                                    *)
C2_PendingResolvedExactlyOnce ==
  rev = "v1" =>
    /\ Completed =>
         LET blocks == UpdateBlocks(Appended)
             lines == IF blocks = <<>> THEN <<>> ELSE blocks[1].updated
         IN /\ \A i \in 1..Len(RemovedNow) :
                 RemovedNow[i].name \notin DOMAIN last.stats
                   => QueuedNow(RemovedNow[i])
            /\ Len(blocks) <= 1
            /\ Len(lines) = Len(Resolved)
            /\ \A i \in 1..Len(lines) :
                 lines[i] = ExactLine(Resolved[i].name,
                                      last.stats[Resolved[i].name],
                                      Resolved[i].bookingData.charges)
            /\ \A i \in 1..Len(Resolved) :
                 \A j \in 1..Len(AfterPending) : AfterPending[j] # Resolved[i]
            /\ Len(last.response.updatedReleases) = Len(Resolved)
    /\ Total(change_log, PendingMarked)
         = Len(AfterPending) + Total(change_log, LAMBDA x : x.updatedCount)

(* an entry was resolved by a run that saw the same roster text, and the   *)
(* latest run, whose release details name it again, wrote no UPDATED line  *)
C2_Witness ==
  /\ rev = "v1" /\ Completed /\ ~last.differ
  /\ UpdateBlocks(Appended) = <<>>
  /\ \E k \in 1..(Len(change_log) - 1) :
       /\ change_log[k].kind = "No change"
       /\ change_log[k + 1].kind = "Release details update"
       /\ change_log[k + 1].at = change_log[k].at
       /\ change_log[k + 1].at < last.ts
       /\ change_log[k + 1].updatedCount = 1
       /\ change_log[k + 1].updated[1].name \in DOMAIN last.stats
  /\ Total(change_log, LAMBDA x : x.updatedCount) = 1
  /\ AfterPending = <<>>

(* C3: in the pending-tracking /api/run, a booking removed in this run     *)
(* whose name is a key of this run's release details is logged as RELEASED *)
(* with the exact release time, release type and time served and is not    *)
(* queued; a removed booking without such a key is queued.                 *)
C3_RemovedMatchedOrPending ==
  (rev = "v1" /\ Completed /\ last.differ) =>
    /\ Len(Appended) >= 1
    /\ Appended[1].kind = "Change detected"
    /\ Appended[1].released = last.response.removedLines
    /\ \A i \in 1..Len(ExpectedRemoved) :
         LET b == ExpectedRemoved[i] IN
         IF b.name \in DOMAIN last.stats
         THEN /\ ~QueuedNow(b)
              /\ i <= MAX_LINES =>
                   LET l == Appended[1].released[i]
                       info == last.stats[b.name]
                   IN /\ l.tag = "Released"
                      /\ l.name = b.name
                      /\ l.date = info.releaseDateTime
                      /\ l.type = <<info.releaseType>>
                      /\ l.timeServed = <<info.timeServed>>
                      /\ l.mark = <<>>
         ELSE QueuedNow(b)

(* one run removes a booking the release details name and one they do not *)
C3_Witness ==
  /\ rev = "v1" /\ Completed /\ last.differ
  /\ \E i, j \in 1..Len(ExpectedRemoved) :
       /\ ExpectedRemoved[i].name \in DOMAIN last.stats
       /\ ExpectedRemoved[j].name \notin DOMAIN last.stats
       /\ Appended[1].released[i].type = <<"RPR">>
       /\ Appended[1].released[j].mark = PendingMark
  /\ Len(AfterPending) = 1

(* C4: when the fingerprint of the current text equals the stored one, the *)
(* run reports hasChanged = false, does not invoke the differ, and its     *)
(* added and removed lists are empty.                                      *)
C4_EqualFingerprintSkipsDiffer ==
  (/\ last.valid /\ ~last.threw
   /\ existsSync(last.before.hash)
   /\ readFileSync(last.before.hash) = md5(last.text)) =>
    /\ last.response.ok
    /\ ~last.response.hasChanged
    /\ ~last.differ
    /\ last.response.addedLines = <<>>
    /\ last.response.removedLines = <<>>

(* a run over a roster of two bookings finds the fingerprint it stored *)
C4_Witness ==
  /\ last.valid /\ rev \in {"v1", "tool"}
  /\ existsSync(last.before.hash) /\ existsSync(last.before.roster)
  /\ readFileSync(last.before.hash) = md5(last.text)
  /\ Len(CurBookings) = 2
  /\ ~last.response.hasChanged

(* ---- runs over the text the previous run stored ---- *)
(* the section wrote to the store (compareRosterTool alone does not) *)
Saved == last.applied # <<>>

SameTextAgain ==
  /\ last.valid /\ ~last.threw
  /\ existsSync(last.before.hash) /\ existsSync(last.before.roster)
  /\ readFileSync(last.before.roster) = last.text
  /\ readFileSync(last.before.hash) = md5(last.text)

(* C5 as stated: when the same raw text is fed to two consecutive runs,    *)
(* the second run appends no entry to the change log, in each revision.    *)
C5_NoEntryOnSameText == SameTextAgain => Appended = <<>>

(* C5, amended: when the same raw text is fed to two consecutive runs, the *)
(* second run appends no BOOKED and no RELEASED entry in any revision; the *)
(* later /api/run, saveRosterHistoryTool and the handler of                *)
(* api/check-roster.js append no roster entry at all, the pending-tracking *)
(* /api/run and /api/check-roster append one "No change" block; besides it *)
(* /api/run appends a "Release details update" block when the run resolves *)
(* pending entries.  saveHistoryStep of the workflow appends no entry      *)
(* either, unless the stored text is empty: compareRosterStep takes that   *)
(* for a first run (C30) and the step appends an "Initial capture" block.  *)
C5_NoBookedReleasedOnSameText ==
  SameTextAgain =>
    LET roster == SelectSeq(Appended,
                    LAMBDA x : x.kind # "Release details update")
    IN /\ \A i \in 1..Len(Appended) :
            /\ Appended[i].bookedCount = 0
            /\ Appended[i].releasedCount = 0
            /\ Appended[i].items = <<>>
       /\ Handler \in {"v2", "tool", "api"} => roster = <<>>
       /\ Handler = "step" =>
            IF Saved /\ last.response.isFirstRun
            THEN Len(roster) = 1 /\ roster[1].kind = "Initial capture"
            ELSE roster = <<>>
       /\ Handler \in {"v1", "cr", "run"} =>
            /\ Len(roster) = 1
            /\ roster[1].kind = "No change"
            /\ Appended[1] = roster[1]
       /\ Len(UpdateBlocks(Appended)) = (IF Len(Resolved) > 0 THEN 1 ELSE 0)
       /\ Handler \in {"cr", "run", "tool", "step", "api"} =>
            UpdateBlocks(Appended) = <<>>

(* the second run over a text appended a "No change" block and an UPDATED  *)
(* block                                                                   *)
C5_Witness ==
  /\ rev = "v1" /\ SameTextAgain
  /\ Len(Appended) = 2
  /\ Appended[1].kind = "No change"
  /\ Appended[2].kind = "Release details update"

(* ---- runs without a stored fingerprint and raw text ---- *)
NoPrior ==
  /\ last.valid /\ ~last.threw
  /\ ~existsSync(last.before.hash) /\ ~existsSync(last.before.roster)

Baseline ==
  Saved => prev_hash = File(md5(last.text)) /\ prev_roster = File(last.text)

BookedWritten ==
  \E i \in 1..Len(Appended) :
    \/ Appended[i].bookedCount > 0
    \/ \E k \in 1..Len(Appended[i].items) : Appended[i].items[k].type = "BOOKED"

(* C6 as stated: without a stored fingerprint and raw text the run reports *)
(* isFirstRun = true, computes no added and no removed records, writes no  *)
(* BOOKED entry to the change log and stores the current fingerprint and   *)
(* text as the baseline, in each revision.                                 *)
C6_FirstRunWritesNoBooked ==
  NoPrior =>
    /\ last.response.isFirstRun
    /\ last.response.addedLines = <<>>
    /\ last.response.removedLines = <<>>
    /\ ~BookedWritten
    /\ Baseline

(* C6, amended: without a stored fingerprint and raw text the run reports  *)
(* isFirstRun = true, computes no added and no removed records and stores  *)
(* the current fingerprint and text as the baseline, in each revision; the *)
(* pending-tracking /api/run and /api/check-roster log an "Initial         *)
(* capture" block, as does saveHistoryStep of the workflow, the tools and  *)
(* the handler of api/check-roster.js log nothing, so none of them writes  *)
(* a BOOKED entry, while the later /api/run writes one BOOKED line for     *)
(* every booking of the current roster.                                    *)
C6_FirstRunBaseline ==
  NoPrior =>
    /\ last.response.isFirstRun
    /\ last.response.addedLines = <<>>
    /\ last.response.removedLines = <<>>
    /\ Baseline
    /\ Handler # "v2" => ~BookedWritten
    /\ Handler \in {"v1", "cr", "run"} =>
         Len(Appended) = 1 /\ Appended[1].kind = "Initial capture"
    /\ Handler \in {"tool", "api"} => Appended = <<>>
    /\ Handler = "step" =>
         IF Saved THEN Len(Appended) = 1 /\ Appended[1].kind = "Initial capture"
         ELSE Appended = <<>>
    /\ rev = "v2" =>
         /\ Len(Appended) = 1
         /\ Len(Appended[1].items) = Len(CurBookings)
         /\ \A k \in 1..Len(Appended[1].items) :
              Appended[1].items[k].type = "BOOKED"
         /\ \A i \in 1..Len(CurBookings) :
              \E k \in 1..Len(Appended[1].items) :
                Appended[1].items[k].line.name = CurBookings[i].name
                /\ Appended[1].items[k].line.date = CurBookings[i].bookDate

(* the first run of the later /api/run over a roster of two bookings *)
C6_Witness ==
  /\ rev = "v2" /\ NoPrior /\ Saved
  /\ Len(CurBookings) = 2
  /\ Len(Appended) = 1
  /\ Len(Appended[1].items) = 2

(* C7: in the pending-tracking /api/run, a pending entry leaves the queue  *)
(* only in a run whose release details have a key equal to its name: after *)
(* every other successful run the entries of the starting queue whose name *)
(* is no key are still queued, in their order, ahead of the new ones,      *)
(* however many runs have passed.                                          *)
C7_PendingStaysWithoutExactMatch ==
  (rev = "v1" /\ Completed) =>
    /\ Len(AfterPending) >= Len(Unmatched)
    /\ SubSeq(AfterPending, 1, Len(Unmatched)) = Unmatched

(* an entry queued two runs ago is still queued after a run whose release  *)
(* details name the same inmate with one more initial                      *)
C7_Witness ==
  /\ rev = "v1" /\ Completed
  /\ cleanName(FeedJaneDrift.name) \in DOMAIN last.stats
  /\ \E i \in 1..Len(BeforePending) :
       /\ BeforePending[i].name = cleanName(FeedJane.name)
       /\ BeforePending[i].detectedAt + 2 <= last.ts
       /\ \E j \in 1..Len(AfterPending) : AfterPending[j] = BeforePending[i]

FetchErrors == {"Failed to download PDF", "fetch failed"}

(* C8: when the roster fetch fails (non-success response or transport      *)
(* error) the run ends with an error result, and the stored fingerprint,   *)
(* the stored raw text, the pending queue and the change log keep their    *)
(* values.                                                                 *)
C8_FetchFailureLeavesStore ==
  [][\A p \in Procs :
       (pc[p] = "fetch" /\ pc'[p] = "idle" /\ result'[p].error \in FetchErrors)
         => /\ ~result'[p].ok
            /\ prev_hash' = prev_hash
            /\ prev_roster' = prev_roster
            /\ pending_releases' = pending_releases
            /\ change_log' = change_log]_vars

(* a run over a store with a baseline, a queued entry and a log has ended  *)
(* with the error of a non-success response                                *)
C8_Witness ==
  \E p \in Procs :
    /\ pc[p] = "idle"
    /\ ~result[p].ok /\ result[p].error = "Failed to download PDF"
    /\ existsSync(prev_hash) /\ existsSync(prev_roster)
    /\ Len(AfterPending) >= 1
    /\ Len(change_log) >= 2

(* C9: in the pending-tracking /api/run, when the release-detail fetch     *)
(* answers with a non-success response or throws, the release details are  *)
(* empty and the run still completes: every booking removed in the run is  *)
(* queued and no entry of the starting queue is resolved.                  *)
C9_FeedFailureFailsOpen ==
  (rev = "v1" /\ last.valid /\ ~last.threw /\ ~last.feed.ok) =>
    /\ last.stats = EmptyMap
    /\ last.response.ok
    /\ last.response.updatedReleases = <<>>
    /\ UpdateBlocks(Appended) = <<>>
    /\ AfterPending =
         BeforePending
           \o [i \in 1..Len(RemovedNow) |-> PendingEntry(RemovedNow[i], last.ts)]

(* the release-detail fetch fails in a run that starts with a queued entry *)
(* and removes a booking the body of the failed response names             *)
C9_Witness ==
  /\ rev = "v1" /\ Completed /\ ~last.feed.ok
  /\ Len(BeforePending) >= 1
  /\ \E i \in 1..Len(RemovedNow) :
       /\ \E k \in 1..Len(last.feed.lines) :
            cleanName(last.feed.lines[k].name) = RemovedNow[i].name
       /\ QueuedNow(RemovedNow[i])
  /\ Len(AfterPending) = Len(BeforePending) + Len(RemovedNow)

(* C10 as stated: within one run the change-log append happens before the  *)
(* state commit (the writes of the fingerprint, the raw text and the       *)
(* pending queue).                                                         *)
C10_LogAppendBeforeStateCommit ==
  last.valid =>
    \A i, j \in 1..Len(last.applied) :
      (last.applied[i] = "change_log.txt" /\ last.applied[j] # "change_log.txt")
        => i < j

(* ---- sections that a throwing write ended ---- *)
Written(e, file) == \E i \in 1..Len(e.applied) : e.applied[i] = file

(* the write of the raw text is the last write of the state commit *)
Interrupted(e) == e.valid /\ e.threw /\ ~Written(e, "prev_roster.txt")

LogAppendFailed(e) == e.valid /\ e.threw /\ Written(e, "prev_roster.txt")

NamesOf(lines) == [i \in 1..Len(lines) |-> lines[i].name]

(* C11 as stated: when a run stops before its state commit has completed,  *)
(* the next run over the same source text computes the same added and      *)
(* removed sets as the interrupted run.                                    *)
C11_SameDiffAfterInterruptedRun ==
  (last.valid /\ Interrupted(last.prev) /\ last.text = last.prev.text) =>
    /\ NamesOf(last.computed.addedLines)
         = NamesOf(last.prev.computed.addedLines)
    /\ NamesOf(last.computed.removedLines)
         = NamesOf(last.prev.computed.removedLines)

(* C12: when an append to the change log throws after the state files were *)
(* written, the stored fingerprint, raw text and pending queue keep their  *)
(* new values and the log keeps what was appended before the throw; the    *)
(* following run over the same text reports hasChanged = false, skips the  *)
(* differ and logs no BOOKED and no RELEASED entry.  The handlers answer   *)
(* the failed run with the error, except saveHistoryStep of the workflow,  *)
(* which catches the throw and answers as after a save (C23).              *)
C12_NoRollbackAfterLogFailure ==
  /\ LogAppendFailed(last) =>
       /\ Handler # "step" => ~last.response.ok
       /\ prev_hash = File(md5(last.text))
       /\ prev_roster = File(last.text)
       /\ rev \in {"v1", "v2"} =>
            /\ existsSync(pending_releases)
            /\ \A i \in 1..Len(Resolved) :
                 \A j \in 1..Len(AfterPending) : AfterPending[j] # Resolved[i]
            /\ rev = "v1" =>
                 \A i \in 1..Len(RemovedNow) :
                   RemovedNow[i].name \notin DOMAIN last.stats
                     => QueuedNow(RemovedNow[i])
       /\ Len(Appended) < (IF Len(Resolved) > 0 THEN 2 ELSE 1)
  /\ (last.valid /\ LogAppendFailed(last.prev) /\ last.text = last.prev.text) =>
       /\ ~last.computed.hasChanged
       /\ ~last.differ
       /\ \A i \in 1..Len(Appended) :
            /\ Appended[i].kind # "Change detected"
            /\ Appended[i].bookedCount = 0
            /\ Appended[i].releasedCount = 0
            /\ Appended[i].items = <<>>

(* the append of a "Change detected" block with a BOOKED line threw, the   *)
(* next run over the same text reported no change, and the log holds no    *)
(* such block                                                              *)
C12_Witness ==
  /\ rev = "v1" /\ Completed
  /\ LogAppendFailed(last.prev) /\ last.prev.differ
  /\ Len(last.prev.computed.addedLines) >= 1
  /\ last.text = last.prev.text
  /\ ~last.response.hasChanged
  /\ \A i \in 1..Len(change_log) : change_log[i].kind # "Change detected"

(* ---- overlapping requests ---- *)
(* the request of the latest section was between its awaits when the       *)
(* section before it ran, and no route has changed the store since         *)
Overlapped ==
  /\ last.valid /\ last.prev.valid
  /\ ~last.threw /\ ~last.prev.threw
  /\ last.proc # last.prev.proc
  /\ last.proc \in last.prev.inflight

(* the request of the latest section was between its awaits when the       *)
(* section last.over of another request ran; other sections and routes may *)
(* have run between the two                                                *)
SawOther ==
  /\ last.valid /\ last.over.valid
  /\ ~last.threw /\ ~last.over.threw

(* the two sections loaded the same stored fingerprint and text *)
SamePrevious ==
  /\ last.before.hash = last.over.before.hash
  /\ last.before.roster = last.over.before.roster

(* C13: two overlapping /api/run requests can both load the same stored    *)
(* previous fingerprint and text and both append a log entry reporting the *)
(* same added and removed bookings (C13_Witness is such a pair).  No lock  *)
(* keeps the second from it: what it loads is what is stored when its      *)
(* section starts.  Whenever the two loaded the same state and fetched the *)
(* same roster they report the same change, the same added and the same    *)
(* removed bookings, and on a change both append their log entry; when no  *)
(* other section wrote between theirs, the second loads what the first     *)
(* stored and reports no change over the same roster.                      *)
C13_OverlappingRunsSamePrevious ==
  rev \in {"v1", "v2"} =>
    /\ (SawOther /\ SamePrevious /\ last.text = last.over.text) =>
         /\ last.computed.isFirstRun = last.over.computed.isFirstRun
         /\ last.computed.hasChanged = last.over.computed.hasChanged
         /\ NamesOf(last.computed.addedLines)
              = NamesOf(last.over.computed.addedLines)
         /\ NamesOf(last.computed.removedLines)
              = NamesOf(last.over.computed.removedLines)
         /\ last.computed.hasChanged =>
              /\ Written(last, "change_log.txt")
              /\ Written(last.over, "change_log.txt")
    /\ Overlapped =>
         /\ last.before.hash = File(md5(last.prev.text))
         /\ last.before.roster = File(last.prev.text)
         /\ last.text = last.prev.text =>
              /\ ~last.computed.hasChanged
              /\ last.computed.addedLines = <<>>
              /\ last.computed.removedLines = <<>>

(* two overlapping requests fetched the same changed roster; a third       *)
(* request stored the earlier roster again between their sections, so both *)
(* loaded the same fingerprint and text and both appended a "Change        *)
(* detected" block with the same added booking                             *)
C13_Witness ==
  /\ rev \in {"v1", "v2"} /\ SawOther /\ SamePrevious
  /\ existsSync(last.before.hash) /\ existsSync(last.before.roster)
  /\ last.text = last.over.text
  /\ last.differ /\ last.over.differ
  /\ Len(last.computed.addedLines) >= 1
  /\ NamesOf(last.computed.addedLines)
       = NamesOf(last.over.computed.addedLines)
  /\ Written(last, "change_log.txt") /\ Written(last.over, "change_log.txt")
  /\ Len(Appended) >= 1
  /\ Appended[1].bookedCount = Len(last.computed.addedLines)

(* ---- the change log ---- *)
(* a step of a run handler: a request moves on, or a section of a run ends *)
RunStep == pc' # pc \/ (last' # last /\ last'.valid)

(* C14: every step of every run handler leaves the earlier content of the  *)
(* change log intact: the log after the step is the log before it followed *)
(* by zero or more new entries, also when a write of the section throws.   *)
C14_LogAppendOnly ==
  [][RunStep => /\ Len(change_log') >= Len(change_log)
                /\ SubSeq(change_log', 1, Len(change_log)) = change_log]_vars

(* a run appended two blocks to a log that already held two *)
C14_Witness ==
  /\ last.valid
  /\ Len(last.before.log) >= 2
  /\ Len(change_log) >= Len(last.before.log) + 2
  /\ SubSeq(change_log, 1, Len(last.before.log)) = last.before.log

(* ---- list cap ---- *)
(* C15 as stated: in a changed run of /api/run the BOOKED and RELEASED     *)
(* lists hold at most MAX_LINES entries each, and the counts written to    *)
(* the change log are the numbers of added and removed bookings, also      *)
(* above MAX_LINES.                                                        *)
C15_CappedListsTrueCounts ==
  (rev = "v1" /\ Completed /\ last.differ) =>
    /\ Len(last.response.addedLines) <= MAX_LINES
    /\ Len(last.response.removedLines) <= MAX_LINES
    /\ Len(Appended[1].booked) <= MAX_LINES
    /\ Len(Appended[1].released) <= MAX_LINES
    /\ Appended[1].bookedCount = Len(ExpectedAdded)
    /\ Appended[1].releasedCount = Len(ExpectedRemoved)

(* ---- records present in both snapshots ---- *)

CommonIds == ids(PrevBookings) \cap ids(CurBookings)

(* the records, old and new, of the ids present in both snapshots *)
CommonRecords ==
  LET common == CommonIds
  IN {b \in Range(PrevBookings) \cup Range(CurBookings) : b.id \in common}

(* C16: for an id present in both the previous and the current snapshot a  *)
(* run of /api/run produces no BOOKED line, no RELEASED line and no        *)
(* pending entry, whatever its name, dates and charges are in the two      *)
(* snapshots: a line that reads like one of its records belongs to an      *)
(* added or removed record of another id.                                  *)
C16_CommonIdYieldsNothing ==
  (rev = "v1" /\ Completed) =>
    LET added == Range(ExpectedAdded)
        removed == Range(ExpectedRemoved)
    IN
    \A b \in CommonRecords :
      /\ formatBooked(b) \in Range(last.response.addedLines) =>
           \E o \in added : formatBooked(o) = formatBooked(b)
      /\ \A pend \in BOOLEAN :
           formatReleased(b, last.stats, pend).text
               \in Range(last.response.removedLines) =>
             \E o \in removed :
               formatReleased(o, last.stats, TRUE).text
                 = formatReleased(b, last.stats, pend).text
      /\ ~QueuedNow(b)
      /\ \A j \in 1..Len(AfterPending) :
           AfterPending[j].bookingData = b =>
             \E k \in 1..Len(BeforePending) : BeforePending[k] = AfterPending[j]

(* a changed run whose only booking kept its id and changed its name and   *)
(* booking date: both lists and the queue stay empty                       *)
C16_Witness ==
  /\ rev = "v1" /\ Completed /\ last.differ
  /\ \E b \in Range(PrevBookings), c \in Range(CurBookings) :
       b.id = c.id /\ b.name # c.name /\ formatBooked(b) # formatBooked(c)
  /\ last.response.addedLines = <<>>
  /\ last.response.removedLines = <<>>
  /\ AfterPending = <<>>
  /\ Appended[1].kind = "Change detected"

(* ---- runs that find the stored fingerprint ---- *)
EqualFingerprint ==
  /\ Completed
  /\ existsSync(last.before.hash) /\ existsSync(last.before.roster)
  /\ readFileSync(last.before.hash) = md5(last.text)

(* C17 as stated: on a run of /api/run whose fingerprint equals the stored *)
(* one nothing further is processed: the pending queue is left as it was   *)
(* and no UPDATED entry is logged.                                         *)
C17_EqualFingerprintLeavesQueue ==
  (rev = "v1" /\ EqualFingerprint) =>
    /\ AfterPending = BeforePending
    /\ UpdateBlocks(Appended) = <<>>

(* C17, amended: on a run of /api/run whose fingerprint equals the stored  *)
(* one the differ is not invoked and no entry is added to the pending      *)
(* queue; the queue is still re-checked against this run's release         *)
(* details: the entries whose name is a key of them leave the queue and    *)
(* are logged in one UPDATED block, the others stay, in order; when no     *)
(* entry matches, the queue is unmodified and no UPDATED entry is logged.  *)
C17_EqualFingerprintOnlyReconciles ==
  (rev = "v1" /\ EqualFingerprint) =>
    /\ ~last.differ
    /\ AfterPending = Unmatched
    /\ \A j \in 1..Len(AfterPending) : AfterPending[j].detectedAt < last.ts
    /\ Len(UpdateBlocks(Appended)) = (IF Resolved = <<>> THEN 0 ELSE 1)
    /\ \A i \in 1..Len(UpdateBlocks(Appended)) :
         /\ UpdateBlocks(Appended)[i].updatedCount = Len(Resolved)
         /\ UpdateBlocks(Appended)[i].at = last.ts
    /\ Resolved = <<>> => AfterPending = BeforePending

(* a run over the stored text resolved the one queued entry: the queue     *)
(* changed and the "No change" block is followed by an UPDATED block       *)
C17_Witness ==
  /\ rev = "v1" /\ EqualFingerprint
  /\ Len(BeforePending) = 1 /\ Len(Resolved) = 1
  /\ AfterPending = <<>>
  /\ Len(Appended) = 2
  /\ Appended[1].kind = "No change"
  /\ Appended[2].kind = "Release details update"

(* ---- order of the pending queue ---- *)
(* the entries this run creates: the removed bookings whose name is no key *)
(* of the release details, in the order of the previous roster             *)
NewQueued ==
  Lines(SelectSeq(RemovedNow, LAMBDA b : b.name \notin DOMAIN last.stats),
        LAMBDA b : PendingEntry(b, last.ts))

(* C18: after a run of the pending-tracking /api/run the queue holds the   *)
(* unresolved entries of the starting queue in their earlier order,        *)
(* followed by the entries created in this run; every carried entry stands *)
(* before every new one.                                                   *)
C18_QueueKeepsInsertionOrder ==
  (rev = "v1" /\ Completed) =>
    /\ AfterPending = Unmatched \o NewQueued
    /\ \A i \in 1..Len(AfterPending), j \in 1..Len(AfterPending) :
         (AfterPending[i].detectedAt < AfterPending[j].detectedAt) => i < j
    /\ \A j \in 1..Len(AfterPending) :
         (j > Len(Unmatched)) <=> (AfterPending[j].detectedAt = last.ts)

(* two entries carried over in their order, one entry of this run behind   *)
(* them                                                                    *)
C18_Witness ==
  /\ rev = "v1" /\ Completed
  /\ Len(BeforePending) = 2 /\ Len(AfterPending) = 3
  /\ BeforePending[1] # BeforePending[2]
  /\ AfterPending[1] = BeforePending[1]
  /\ AfterPending[2] = BeforePending[2]
  /\ AfterPending[3].detectedAt = last.ts

(* ---- name cleaning ---- *)
(* C19: name cleaning is idempotent: for every input string, cleaning the  *)
(* cleaned name returns it unchanged.                                      *)
C19_CleanNameIdempotent ==
  (pure.fn = "cleanName" /\ Len(pure.outs) = 2) =>
    pure.outs[2] = pure.outs[1]

(* ---- fail-soft extraction ---- *)
Extracted == pure.fn = "extractBookings" /\ pure.done

HasId(b) == b.marker /\ b.idCap # <<>>

NoChargeSection(b) == \A i \in 1..Len(b.lines) : b.lines[i].kind # "header"

NoChargeLine(b) == \A i \in 1..Len(b.lines) : b.lines[i].kind # "charge"

(* C20: a block with a booking id whose charges section is missing, or has *)
(* no line of charge shape, yields one record for that id with an empty    *)
(* charge list, in each revision of the extractor.                         *)
C20_FailSoftExtraction ==
  (/\ Extracted /\ HasId(pure.input)
   /\ NoChargeSection(pure.input) \/ NoChargeLine(pure.input)) =>
    /\ Len(pure.out) = 1
    /\ pure.out[1].id = pure.input.idCap[1]
    /\ pure.out[1].charges = <<>>

(* the roster parser of the tools met a block whose charges section holds  *)
(* only a line it cannot parse, and returned the record without charges    *)
C20_Witness ==
  /\ rev = "tool" /\ Extracted /\ HasId(pure.input)
  /\ ~NoChargeSection(pure.input) /\ NoChargeLine(pure.input)
  /\ \E i \in 2..Len(pure.input.lines) :
       /\ pure.input.lines[i - 1].kind = "header"
       /\ pure.input.lines[i].kind = "other"
  /\ Len(pure.out) = 1
  /\ pure.out[1].id = "7"
  /\ pure.out[1].charges = <<>>

(* ---- book date and release date ---- *)
(* C21: the book date and the release date of a record are the date and    *)
(* time when the labelled line carries a time and a date, the release date *)
(* is "Not Released" when the line carries the no-release-date words, and  *)
(* a field whose line is missing or does not parse is "Unknown".           *)
C21_DateFieldsParsed ==
  (Extracted /\ HasId(pure.input)) =>
    LET b == pure.input
        rec == pure.out[1]
    IN /\ rec.bookDate = (IF b.bookMatch THEN DateTime(b.bookDate, b.bookTime)
                          ELSE Unknown)
       /\ rec.releaseDate =
            (CASE b.relMatch = "date" -> DateTime(b.relDate, b.relTime)
               [] b.relMatch = "norel" -> NotReleased
               [] OTHER -> Unknown)

(* ---- the later /api/run ---- *)
(* C22: in the later /api/run every booking removed in a run whose name is *)
(* no key of the run's release details is added to the pending queue.      *)
C22_LaterRunQueuesUnmatched ==
  (rev = "v2" /\ Completed) =>
    \A i \in 1..Len(RemovedNow) :
      RemovedNow[i].name \notin DOMAIN last.stats =>
        \E j \in 1..Len(AfterPending) :
          AfterPending[j].bookingData.id = RemovedNow[i].id

(* ---- persistence failures ---- *)
(* C23: a run in which a write of the state files or of the change log     *)
(* throws fails, and what it reports to its caller is not what a failed    *)
(* roster fetch reports.                                                   *)
C23_WriteFailureFailsRun ==
  (last.valid /\ last.threw) =>
    /\ ~last.response.ok
    /\ last.response.error \notin FetchErrors
    /\ last.response.error # ""

(* ---- the stored fingerprint and the stored text ---- *)
Quiescent == \A p \in Procs : pc[p] = "idle"

(* C24: whenever no run is in progress the stored fingerprint is the hash  *)
(* of the stored raw text, after completed and failed runs alike.          *)
C24_StoredHashMatchesStoredText ==
  Quiescent =>
    /\ existsSync(prev_hash) <=> existsSync(prev_roster)
    /\ (existsSync(prev_hash) /\ existsSync(prev_roster)) =>
         readFileSync(prev_hash) = md5(readFileSync(prev_roster))

(* ---- overlapping requests and the age of the stored text ---- *)
(* C25: with overlapping /api/run requests the stored snapshot never goes  *)
(* back: once a request has stored a text, no request whose text arrived   *)
(* before that text stores its own afterwards.                             *)
C25_StoredSnapshotNeverRegresses ==
  rev \in {"v1", "v2"} => ~fetch_log.regressed

(* ---- entries of one booking in the pending queue ---- *)
EntriesFor(queue, id) ==
  {i \in 1..Len(queue) : queue[i].bookingData.id = id}

QueuedIds(queue) == {queue[i].bookingData.id : i \in 1..Len(queue)}

(* C26 as stated: after any sequence of runs, successful or failed, the    *)
(* pending queue never holds two entries for the same booking id.          *)
C26_OneEntryPerBooking ==
  rev = "v1" =>
    \A id \in QueuedIds(QueueOf(pending_releases)) :
      Cardinality(EntriesFor(QueueOf(pending_releases), id)) <= 1

(* C26, amended: after any sequence of runs, successful or failed, the     *)
(* pending queue never holds two entries for the same booking id that one  *)
(* run added: a run adds at most one entry for a booking id, and only for  *)
(* an id it found removed, so two entries for one id come from two runs    *)
(* that each found the booking removed.                                    *)
C26_OneEntryPerRemovingRun ==
  (rev = "v1" /\ last.valid) =>
    /\ \A id \in QueuedIds(AfterPending) :
         Cardinality(EntriesFor(AfterPending, id))
           <= Cardinality(EntriesFor(BeforePending, id))
              + (IF id \in ids(RemovedNow) THEN 1 ELSE 0)
    /\ \A i \in 1..Len(AfterPending), j \in 1..Len(AfterPending) :
         (/\ i # j
          /\ AfterPending[i].bookingData.id = AfterPending[j].bookingData.id)
           => AfterPending[i].detectedAt # AfterPending[j].detectedAt

(* the queue holds two entries for one booking, added by two runs that     *)
(* each found it removed                                                   *)
C26_Witness ==
  /\ rev = "v1" /\ Completed
  /\ \E i \in 1..Len(AfterPending), j \in 1..Len(AfterPending) :
       /\ i < j
       /\ AfterPending[i].bookingData.id = AfterPending[j].bookingData.id
       /\ AfterPending[i].detectedAt < AfterPending[j].detectedAt
       /\ AfterPending[j].detectedAt = last.ts
       /\ AfterPending[j].bookingData.id \in ids(RemovedNow)

(* ---- queue entries and their RELEASED lines ---- *)
(* the line formatReleased wrote for the booking of a pending entry *)
PendingLine(e) ==
  PlainReleased(e.bookingData, e.bookingData.releaseDate, PendingMark)

(* C27: after every successful run of the pending-tracking /api/run each   *)
(* entry of the pending queue has its own RELEASED line marked "(exact     *)
(* time pending)" in the block the log got in the run that queued it,      *)
(* however many bookings that run found removed.                           *)
C27_QueuedEntriesAreLogged ==
  (rev = "v1" /\ Completed) =>
    \A j \in 1..Len(AfterPending) :
      LET e == AfterPending[j]
          alike == {i \in 1..Len(AfterPending) :
                      /\ AfterPending[i].detectedAt = e.detectedAt
                      /\ PendingLine(AfterPending[i]) = PendingLine(e)}
      IN Cardinality(alike)
           <= Total(change_log,
                    LAMBDA x : Cardinality({i \in 1..Len(x.released) :
                                 x.at = e.detectedAt
                                 /\ x.released[i] = PendingLine(e)}))

(* ---- entries queued and entries resolved by one run ---- *)
UpdatedNames ==
  {last.response.updatedReleases[i].name :
     i \in 1..Len(last.response.updatedReleases)}

PendingNamesLogged ==
  UNION {{Appended[k].released[i].name :
            i \in {n \in 1..Len(Appended[k].released) :
                     Appended[k].released[n].mark = PendingMark}} :
         k \in 1..Len(Appended)}

(* C28: an entry the pending-tracking /api/run adds to the queue is not    *)
(* resolved by the same run: it is still queued when the run ends, every   *)
(* UPDATED line of the run belongs to an entry the run found in the queue, *)
(* and no name is logged both as RELEASED "(exact time pending)" and as    *)
(* UPDATED by one run.                                                     *)
C28_NewEntryNotResolvedSameRun ==
  (rev = "v1" /\ Completed) =>
    /\ \A i \in 1..Len(NewQueued) :
         /\ NewQueued[i].name \notin UpdatedNames
         /\ \E j \in 1..Len(AfterPending) : AfterPending[j] = NewQueued[i]
    /\ \A n \in UpdatedNames :
         \E k \in 1..Len(BeforePending) : BeforePending[k].name = n
    /\ Len(last.response.updatedReleases) <= Len(BeforePending)
    /\ PendingNamesLogged \cap UpdatedNames = {}

(* one run logged a booking as RELEASED "(exact time pending)" and queued  *)
(* it, and wrote the UPDATED line of another booking it found queued       *)
C28_Witness ==
  /\ rev = "v1" /\ Completed /\ last.differ
  /\ Len(NewQueued) = 1 /\ Len(Resolved) = 1
  /\ UpdatedNames = {Resolved[1].name}
  /\ PendingNamesLogged = {NewQueued[1].name}
  /\ AfterPending = NewQueued
  /\ Len(UpdateBlocks(Appended)) = 1

(* C29: a run appends a "Change detected" block to the change log only     *)
(* when the extraction of the fetched text and the extraction of the       *)
(* stored text differ in at least one booking id.                          *)
C29_ChangeBlockNeedsIdChange ==
  Completed =>
    \A i \in 1..Len(Appended) :
      Appended[i].kind = "Change detected" =>
        (ExpectedAdded # <<>> \/ ExpectedRemoved # <<>>)

(* C30: a run that finds the fingerprint file and the roster file written  *)
(* by an earlier run reports isFirstRun = FALSE, whatever text the roster  *)
(* file holds, the empty text included.                                    *)
C30_FirstRunOnlyWithoutState ==
  (/\ Completed
   /\ existsSync(last.before.hash)
   /\ existsSync(last.before.roster)) => ~last.response.isFirstRun

====
